---------------------------- MODULE Spec2Model ----------------------------
(***************************************************************************)
(* Encrypted keystore and wallet registry of rsk-rust-cli.                 *)
(*                                                                         *)
(*   src/src/types/wallet.rs     Wallet (keystore entry), WalletData       *)
(*   src/src/commands/wallet.rs  WalletCommand (create, import, list,      *)
(*                               switch, rename, backup, delete)           *)
(*   src/src/commands/api.rs, commands/transfer.rs, interactive/           *)
(*                               the other readers of the wallet file      *)
(*   src/src/utils/secure_fs.rs, utils/constants.rs                        *)
(*                               owner-only file and directory             *)
(*   src/src/utils/secrets.rs    Secret, SerializableSecret                *)
(*                                                                         *)
(* Byte strings are sequences over 0..255, text produced by an encoder is  *)
(* a sequence of one-character strings, wallet names are atomic strings.   *)
(* scrypt, AES-256-GCM and the key-to-address derivation are external      *)
(* crates: they are modelled by small arithmetic stand-ins that keep the   *)
(* properties the callers rely on (distinct passwords derive distinct keys *)
(* for one salt, a tag verifies only under the key, nonce and ciphertext   *)
(* that produced it, distinct keys have distinct addresses).               *)
(***************************************************************************)
EXTENDS Integers, Sequences, FiniteSets, TLC

VARIABLES
    entry,  \* crypto: the Wallet under test with the key and password that built it
    out,    \* crypto: outcome of the last decrypt_private_key call
    wd,     \* an in-memory WalletData instance driven through its methods
    file,   \* the registry file rsk-rust-cli.json: [exists, data]
    last,   \* the last operation: name, arguments, result, registry before it
    fs,     \* mode bits and existence of the data directory and the registry file
    mem,    \* the Secret wrappers of one scope and the heap buffers behind them
    prog,   \* a function using the wrappers: its statements, the build, its run
    race,   \* two processes in load-mutate-write on the registry file
    call,   \* the buffers of the last keystore call as it left them on return
    poll    \* the receipt loop of the transfer command

vars == <<entry, out, wd, file, last, fs, mem, prog, race, call, poll>>

---------------------------------------------------------------------------
(* Bounds of the model *)

NumKeys == 2     \* signing keys that exist
MaxPwLen == 2    \* longest password tried against an entry
NumRand == 1     \* outcomes of one OsRng draw when an entry is built alone
MaxCalls == 4    \* entries built one after the other from one OsRng
MaxSecrets == 3  \* Secret wrappers built in one scope
MaxStmts == 3  \* statements after the first in a function that uses the wrappers
MaxTextLen == 2  \* characters in a secret text that is serialized

(* Program constants *)

SALT_LEN == 16
NONCE_LEN == 12
KEY_LEN == 32
TAG_LEN == 16
ADDRESS_LEN == 20

---------------------------------------------------------------------------
(* Encoders *)

B64Alphabet ==
    << "A","B","C","D","E","F","G","H","I","J","K","L","M","N","O","P",
       "Q","R","S","T","U","V","W","X","Y","Z","a","b","c","d","e","f",
       "g","h","i","j","k","l","m","n","o","p","q","r","s","t","u","v",
       "w","x","y","z","0","1","2","3","4","5","6","7","8","9","+","/" >>

B64Char(v) == B64Alphabet[v + 1]

\* The sextet of each alphabet character.
B64Values ==
    [c \in {B64Alphabet[i] : i \in 1..64} |->
        (CHOOSE i \in 1..64 : B64Alphabet[i] = c) - 1]

B64IsChar(c) == c \in DOMAIN B64Values

B64Val(c) == B64Values[c]

\* The encoding the STANDARD_NO_PAD engine would give: no "=" padding.
RECURSIVE B64EncodeNoPad(_)
B64EncodeNoPad(b) ==
    IF Len(b) = 0 THEN << >>
    ELSE IF Len(b) = 1 THEN
        << B64Char(b[1] \div 4), B64Char((b[1] % 4) * 16) >>
    ELSE IF Len(b) = 2 THEN
        << B64Char(b[1] \div 4),
           B64Char((b[1] % 4) * 16 + (b[2] \div 16)),
           B64Char((b[2] % 16) * 4) >>
    ELSE
        << B64Char(b[1] \div 4),
           B64Char((b[1] % 4) * 16 + (b[2] \div 16)),
           B64Char((b[2] % 16) * 4 + (b[3] \div 64)),
           B64Char(b[3] % 64) >> \o B64EncodeNoPad(SubSeq(b, 4, Len(b)))

\* STANDARD.encode: three bytes to four characters, "=" padding.
RECURSIVE B64Encode(_)
B64Encode(b) ==
    IF Len(b) = 0 THEN << >>
    ELSE IF Len(b) = 1 THEN
        << B64Char(b[1] \div 4), B64Char((b[1] % 4) * 16), "=", "=" >>
    ELSE IF Len(b) = 2 THEN
        << B64Char(b[1] \div 4),
           B64Char((b[1] % 4) * 16 + (b[2] \div 16)),
           B64Char((b[2] % 16) * 4), "=" >>
    ELSE
        << B64Char(b[1] \div 4),
           B64Char((b[1] % 4) * 16 + (b[2] \div 16)),
           B64Char((b[2] % 16) * 4 + (b[3] \div 64)),
           B64Char(b[3] % 64) >> \o B64Encode(SubSeq(b, 4, Len(b)))

\* STANDARD.decode: length a multiple of four, canonical padding, only
\* alphabet characters, no non-zero trailing bits.  [ok, bytes]
B64Decode(s) ==
    LET n == Len(s)
        pad == IF n > 0 /\ s[n] = "="
               THEN (IF n > 1 /\ s[n - 1] = "=" THEN 2 ELSE 1)
               ELSE 0
        m == (n \div 4) * 3 - pad
        bad == [ok |-> FALSE, bytes |-> << >>]
    IN  IF n % 4 # 0 THEN bad
        ELSE IF \E i \in 1..(n - pad) : ~B64IsChar(s[i]) THEN bad
        ELSE LET v == [i \in 1..(n - pad) |-> B64Val(s[i])]
                 at(i) == IF i <= n - pad THEN v[i] ELSE 0
                 trailing ==
                    CASE pad = 1 -> v[n - 1] % 4
                      [] pad = 2 -> v[n - 2] % 16
                      [] OTHER   -> 0
             IN  IF trailing # 0 THEN bad
                 ELSE [ok |-> TRUE,
                       bytes |-> [j \in 1..m |->
                          LET g == 4 * ((j - 1) \div 3)
                              r == (j - 1) % 3
                          IN  CASE r = 0 -> at(g + 1) * 4 + (at(g + 2) \div 16)
                                [] r = 1 -> (at(g + 2) % 16) * 16 + (at(g + 3) \div 4)
                                [] OTHER -> (at(g + 3) % 4) * 64 + at(g + 4)]]

HexDigits ==
    << "0","1","2","3","4","5","6","7","8","9","a","b","c","d","e","f" >>

\* hex::encode and the {:x} formatter: two lowercase digits per byte.
HexEncode(b) ==
    [i \in 1..(2 * Len(b)) |->
        IF i % 2 = 1 THEN HexDigits[(b[(i + 1) \div 2] \div 16) + 1]
                     ELSE HexDigits[(b[i \div 2] % 16) + 1]]

\* Reading of a lowercase hex text back into bytes (what a signer does with
\* the returned key); used to state results, not by the program's own code.
HexValues ==
    [c \in {HexDigits[i] : i \in 1..16} |->
        (CHOOSE i \in 1..16 : HexDigits[i] = c) - 1]

HexValue(c) == HexValues[c]

HexDecode(s) ==
    [j \in 1..(Len(s) \div 2) |-> HexValue(s[2 * j - 1]) * 16 + HexValue(s[2 * j])]

---------------------------------------------------------------------------
(* Inputs: signing keys, passwords, random draws *)

\* PrivateKeySigner::to_bytes of the i-th signing key: 32 bytes.
Key(i) == [j \in 1..KEY_LEN |-> (i * 37 + j * 11) % 256]

Keys == {Key(i) : i \in 1..NumKeys}

\* PrivateKeySigner::address: the 20-byte account of a key (stand-in for
\* secp256k1 + keccak; distinct keys of Keys have distinct addresses).
AddressOf(k) == [j \in 1..ADDRESS_LEN |-> (k[j] * 3 + k[j + 12] + 7) % 256]

\* Passwords are byte strings over "a", "b", the empty password included.
PwBytes == {97, 98}

Passwords == UNION {[1..n -> PwBytes] : n \in 0..MaxPwLen}

\* The passwords the wallet commands are run with.
CmdPasswords == {<<97>>, <<98>>}

\* OsRng.fill_bytes: the r-th possible outcome of a draw.
RandSalt(r) == [j \in 1..SALT_LEN |-> (r * 17 + j * 5) % 256]

RandNonce(r) == [j \in 1..NONCE_LEN |-> (r * 29 + j * 3) % 256]

Draws == 1..NumRand

\* The draws the wallet commands are run with.
CmdDraws == {1}

---------------------------------------------------------------------------
(* Stand-ins for the scrypt and aes-gcm crates *)

RECURSIVE SumSeq(_)
SumSeq(b) == IF Len(b) = 0 THEN 0 ELSE b[1] + SumSeq(Tail(b))

RECURSIVE PwDigest(_)
PwDigest(p) == IF Len(p) = 0 THEN 0 ELSE (p[1] - 96) + 3 * PwDigest(Tail(p))

\* scrypt(password, salt, Params::recommended(), &mut [0u8; 32])
Scrypt(password, salt) ==
    LET digest == PwDigest(password)
    IN  [i \in 1..KEY_LEN |->
            (digest * 5
               + (IF Len(salt) = 0 THEN 0 ELSE salt[((i - 1) % Len(salt)) + 1])
               + i) % 256]

KeyStream(key, nonce, i) ==
    (key[((i - 1) % KEY_LEN) + 1] + nonce[((i - 1) % NONCE_LEN) + 1]) % 256

AeadTag(key, nonce, ct) ==
    LET sum == SumSeq(ct)
    IN  [j \in 1..TAG_LEN |->
            (key[j] + nonce[((j - 1) % NONCE_LEN) + 1] + sum) % 256]

\* Aes256Gcm::encrypt: ciphertext of the plaintext's length, then the tag.
AeadEncrypt(key, nonce, pt) ==
    LET ct == [i \in 1..Len(pt) |-> (pt[i] + KeyStream(key, nonce, i)) % 256]
    IN  ct \o AeadTag(key, nonce, ct)

\* Aes256Gcm::decrypt: [ok, pt]; fails unless the tag verifies.
AeadDecrypt(key, nonce, data) ==
    IF Len(data) < TAG_LEN THEN [ok |-> FALSE, pt |-> << >>]
    ELSE LET n == Len(data) - TAG_LEN
             ct == SubSeq(data, 1, n)
             tag == SubSeq(data, n + 1, Len(data))
         IN  IF tag # AeadTag(key, nonce, ct) THEN [ok |-> FALSE, pt |-> << >>]
             ELSE [ok |-> TRUE,
                   pt |-> [i \in 1..n |->
                       (ct[i] + 256 - KeyStream(key, nonce, i)) % 256]]

\* AeadDecrypt that skips the tag comparison.
AeadDecryptUnchecked(key, nonce, data) ==
    IF Len(data) < TAG_LEN THEN [ok |-> FALSE, pt |-> << >>]
    ELSE LET n == Len(data) - TAG_LEN
             ct == SubSeq(data, 1, n)
         IN  [ok |-> TRUE,
              pt |-> [i \in 1..n |->
                  (ct[i] + 256 - KeyStream(key, nonce, i)) % 256]]

---------------------------------------------------------------------------
(* Wallet: the keystore entry *)

\* encrypt_private_key that leaves the nonce as initialised, [0u8; 12].
encrypt_private_key_zero_nonce(private_key, password, rs, rn) ==
    LET salt == RandSalt(rs)
        nonce == [j \in 1..NONCE_LEN |-> 0]
        key == Scrypt(password, salt)
    IN  << AeadEncrypt(key, nonce, private_key), nonce, salt >>

\* Wallet::encrypt_private_key; rs, rn are the two OsRng draws.
\* Returns (ciphertext, nonce, salt) in the order of the source.
encrypt_private_key(private_key, password, rs, rn) ==
    LET salt == RandSalt(rs)
        nonce == RandNonce(rn)
        key == Scrypt(password, salt)
    IN  << AeadEncrypt(key, nonce, private_key), nonce, salt >>

\* format!("0x{:x}", address)
FormatAddress(address) == <<"0", "x">> \o HexEncode(address)

\* Wallet::new(wallet, name, password)
Wallet_new(k, name, password, rs, rn) ==
    LET enc == encrypt_private_key(k, password, rs, rn)
        encrypted_key == enc[1]
        iv == enc[2]
        salt == enc[3]
    IN  [address |-> AddressOf(k),
         balance |-> 0,
         network |-> "",
         name |-> name,
         encrypted_private_key |-> B64Encode(encrypted_key),
         salt |-> B64Encode(salt),
         iv |-> B64Encode(iv),
         created_at |-> "now"]

Fail(msg) == [res |-> msg, value |-> << >>]

\* decrypt_private_key with the legacy fallback its comment speaks of: when
\* the tag does not verify, the bytes are decrypted without authentication.
decrypt_private_key_fallback(w, password) ==
    LET salt == B64Decode(w.salt)
        nonce_or_iv == B64Decode(w.iv)
        encrypted_key == B64Decode(w.encrypted_private_key)
    IN  IF ~salt.ok THEN Fail("Failed to decode salt")
        ELSE IF ~nonce_or_iv.ok THEN Fail("Failed to decode nonce/IV")
        ELSE IF ~encrypted_key.ok THEN Fail("Failed to decode encrypted private key")
        ELSE IF Len(salt.bytes) # SALT_LEN THEN Fail("Salt must be 16 bytes")
        ELSE LET key == Scrypt(password, salt.bytes)
             IN  IF Len(nonce_or_iv.bytes) = NONCE_LEN
                 THEN LET plain == AeadDecryptUnchecked(key, nonce_or_iv.bytes,
                                                        encrypted_key.bytes)
                      IN  IF ~plain.ok THEN Fail("Incorrect password")
                          ELSE IF Len(plain.pt) # KEY_LEN
                               THEN Fail("Decrypted private key has invalid length")
                          ELSE [res |-> "Ok",
                                value |-> <<"0", "x">> \o HexEncode(plain.pt)]
                 ELSE Fail("Unsupported encryption format")

\* decrypt_private_key that treats a nonce/IV of another length as a legacy
\* format and hands back the stored bytes without authentication.
decrypt_private_key_legacy(w, password) ==
    LET salt == B64Decode(w.salt)
        nonce_or_iv == B64Decode(w.iv)
        encrypted_key == B64Decode(w.encrypted_private_key)
    IN  IF ~salt.ok THEN Fail("Failed to decode salt")
        ELSE IF ~nonce_or_iv.ok THEN Fail("Failed to decode nonce/IV")
        ELSE IF ~encrypted_key.ok THEN Fail("Failed to decode encrypted private key")
        ELSE IF Len(salt.bytes) # SALT_LEN THEN Fail("Salt must be 16 bytes")
        ELSE LET key == Scrypt(password, salt.bytes)
             IN  IF Len(nonce_or_iv.bytes) = NONCE_LEN
                 THEN LET plain == AeadDecrypt(key, nonce_or_iv.bytes, encrypted_key.bytes)
                      IN  IF ~plain.ok THEN Fail("Incorrect password")
                          ELSE IF Len(plain.pt) # KEY_LEN
                               THEN Fail("Decrypted private key has invalid length")
                          ELSE [res |-> "Ok",
                                value |-> <<"0", "x">> \o HexEncode(plain.pt)]
                 ELSE [res |-> "Ok",
                       value |-> <<"0", "x">> \o HexEncode(encrypted_key.bytes)]

\* decrypt_private_key without the check of the plaintext's length.
decrypt_private_key_any_length(w, password) ==
    LET salt == B64Decode(w.salt)
        nonce_or_iv == B64Decode(w.iv)
        encrypted_key == B64Decode(w.encrypted_private_key)
    IN  IF ~salt.ok THEN Fail("Failed to decode salt")
        ELSE IF ~nonce_or_iv.ok THEN Fail("Failed to decode nonce/IV")
        ELSE IF ~encrypted_key.ok THEN Fail("Failed to decode encrypted private key")
        ELSE IF Len(salt.bytes) # SALT_LEN THEN Fail("Salt must be 16 bytes")
        ELSE LET key == Scrypt(password, salt.bytes)
             IN  IF Len(nonce_or_iv.bytes) = NONCE_LEN
                 THEN LET plain == AeadDecrypt(key, nonce_or_iv.bytes, encrypted_key.bytes)
                      IN  IF ~plain.ok THEN Fail("Incorrect password")
                          ELSE [res |-> "Ok",
                                value |-> <<"0", "x">> \o HexEncode(plain.pt)]
                 ELSE Fail("Unsupported encryption format")

\* decrypt_private_key that tells stored bytes too short to hold a tag apart
\* from a tag that does not verify.
decrypt_private_key_reports_corruption(w, password) ==
    LET salt == B64Decode(w.salt)
        nonce_or_iv == B64Decode(w.iv)
        encrypted_key == B64Decode(w.encrypted_private_key)
    IN  IF ~salt.ok THEN Fail("Failed to decode salt")
        ELSE IF ~nonce_or_iv.ok THEN Fail("Failed to decode nonce/IV")
        ELSE IF ~encrypted_key.ok THEN Fail("Failed to decode encrypted private key")
        ELSE IF Len(salt.bytes) # SALT_LEN THEN Fail("Salt must be 16 bytes")
        ELSE LET key == Scrypt(password, salt.bytes)
             IN  IF Len(nonce_or_iv.bytes) = NONCE_LEN
                 THEN LET plain == AeadDecrypt(key, nonce_or_iv.bytes, encrypted_key.bytes)
                      IN  IF Len(encrypted_key.bytes) < TAG_LEN
                          THEN Fail("Corrupted data")
                          ELSE IF ~plain.ok THEN Fail("Incorrect password")
                          ELSE IF Len(plain.pt) # KEY_LEN
                               THEN Fail("Decrypted private key has invalid length")
                          ELSE [res |-> "Ok",
                                value |-> <<"0", "x">> \o HexEncode(plain.pt)]
                 ELSE Fail("Unsupported encryption format")

\* Wallet::decrypt_private_key(&self, password): [res, value]
decrypt_private_key(w, password) ==
    LET salt == B64Decode(w.salt)
        nonce_or_iv == B64Decode(w.iv)
        encrypted_key == B64Decode(w.encrypted_private_key)
    IN  IF ~salt.ok THEN Fail("Failed to decode salt")
        ELSE IF ~nonce_or_iv.ok THEN Fail("Failed to decode nonce/IV")
        ELSE IF ~encrypted_key.ok THEN Fail("Failed to decode encrypted private key")
        ELSE IF Len(salt.bytes) # SALT_LEN THEN Fail("Salt must be 16 bytes")
        ELSE LET key == Scrypt(password, salt.bytes)
             IN  IF Len(nonce_or_iv.bytes) = NONCE_LEN
                 THEN LET plain == AeadDecrypt(key, nonce_or_iv.bytes, encrypted_key.bytes)
                      IN  IF ~plain.ok THEN Fail("Incorrect password")
                          ELSE IF Len(plain.pt) # KEY_LEN
                               THEN Fail("Decrypted private key has invalid length")
                          ELSE [res |-> "Ok",
                                value |-> <<"0", "x">> \o HexEncode(plain.pt)]
                 ELSE Fail("Unsupported encryption format")

---------------------------------------------------------------------------
(* WalletData: the registry *)

Names == {"main", "alt"}

NoWallets == [a \in {} |-> {}]

\* WalletData::new; Option values are sequences of length 0 or 1.
WalletData_new ==
    [current_wallet |-> << >>,
     wallets |-> NoWallets,
     contacts |-> << >>,
     api_key |-> << >>]

Insert(wallets, address, wallet) ==
    [a \in (DOMAIN wallets) \cup {address} |->
        IF a = address THEN wallet ELSE wallets[a]]

Remove(wallets, address) ==
    [a \in (DOMAIN wallets) \ {address} |-> wallets[a]]

\* add_wallet without its contains_key check: HashMap::insert replaces.
add_wallet_replace(d, wallet) ==
    LET address == FormatAddress(wallet.address)
    IN  [res |-> "Ok",
         data |-> [d EXCEPT !.wallets = Insert(d.wallets, address, wallet),
                            !.current_wallet = address]]

\* add_wallet that inserts the entry and leaves the selection as it was.
add_wallet_keep_current(d, wallet) ==
    LET address == FormatAddress(wallet.address)
    IN  IF address \in DOMAIN d.wallets
        THEN [res |-> "DuplicateAddress", data |-> d]
        ELSE [res |-> "Ok",
              data |-> [d EXCEPT !.wallets = Insert(d.wallets, address, wallet)]]

\* WalletData::add_wallet
add_wallet(d, wallet) ==
    LET address == FormatAddress(wallet.address)
    IN  IF address \in DOMAIN d.wallets
        THEN [res |-> "DuplicateAddress", data |-> d]
        ELSE [res |-> "Ok",
              data |-> [d EXCEPT !.wallets = Insert(d.wallets, address, wallet),
                                 !.current_wallet = address]]

\* WalletData::get_current_wallet
get_current_wallet(d) ==
    IF d.current_wallet \in DOMAIN d.wallets
    THEN << d.wallets[d.current_wallet] >>
    ELSE << >>

\* switch_wallet without its contains_key check.
switch_wallet_unchecked(d, address) ==
    [res |-> "Ok", data |-> [d EXCEPT !.current_wallet = address]]

\* WalletData::switch_wallet
switch_wallet(d, address) ==
    IF address \notin DOMAIN d.wallets
    THEN [res |-> "NotFound", data |-> d]
    ELSE [res |-> "Ok", data |-> [d EXCEPT !.current_wallet = address]]

\* WalletData::get_wallet_by_name: the first entry of that name in the
\* HashMap's iteration order, which is any entry of that name.
get_wallet_by_name(d, name) ==
    {d.wallets[a] : a \in {x \in DOMAIN d.wallets : d.wallets[x].name = name}}

\* remove_wallet without the reset of the selection.
remove_wallet_keep_current(d, address) ==
    IF address \notin DOMAIN d.wallets
    THEN [res |-> "NotFound", data |-> d]
    ELSE [res |-> "Ok", data |-> [d EXCEPT !.wallets = Remove(d.wallets, address)]]

\* remove_wallet that resets the selection whatever entry is removed.
remove_wallet_clear_current(d, address) ==
    IF address \notin DOMAIN d.wallets
    THEN [res |-> "NotFound", data |-> d]
    ELSE [res |-> "Ok",
          data |-> [d EXCEPT !.current_wallet = << >>,
                             !.wallets = Remove(d.wallets, address)]]

\* WalletData::remove_wallet
remove_wallet(d, address) ==
    IF address \notin DOMAIN d.wallets
    THEN [res |-> "NotFound", data |-> d]
    ELSE [res |-> "Ok",
          data |-> [d EXCEPT
              !.current_wallet = IF d.current_wallet = address THEN << >> ELSE @,
              !.wallets = Remove(d.wallets, address)]]

\* WalletData::rename_wallet
rename_wallet(d, wallet, new_name) ==
    LET address == FormatAddress(wallet.address)
    IN  IF address \notin DOMAIN d.wallets
        THEN [res |-> "NotFound", data |-> d]
        ELSE [res |-> "Ok",
              data |-> [d EXCEPT !.wallets[address].name = new_name]]

---------------------------------------------------------------------------
(* State *)

NoEntry == [made |-> FALSE]

NoOut == [done |-> FALSE]

\* parses: the text of the file deserializes into a WalletData.
Absent == [exists |-> FALSE, parses |-> TRUE, data |-> WalletData_new]

OnDisk(d) == [exists |-> TRUE, parses |-> TRUE, data |-> d]

NoArgs ==
    [name |-> "", new_name |-> "", address |-> << >>, wallet |-> << >>,
     password |-> << >>]

NoOp ==
    [op |-> "none", level |-> "none", args |-> NoArgs, res |-> "none",
     inner |-> "none", pre |-> Absent, post |-> Absent,
     backup |-> << >>, shown |-> << >>]

\* A method call on a WalletData instance: pre is the instance before it,
\* post the instance after it.
Called(op, args, r, d) ==
    [op |-> op, level |-> "registry", args |-> args, res |-> r.res,
     inner |-> "none", pre |-> OnDisk(d), post |-> OnDisk(r.data),
     backup |-> << >>, shown |-> << >>]

\* A wallet command: res is what the command returns, inner what the
\* WalletData method it called returned, pre the file before the command,
\* post the file after it, backup the backup file it wrote, shown the key
\* text it printed (both empty for the commands that do neither).
Ran(op, args, res, inner, written) ==
    [op |-> op, level |-> "command", args |-> args, res |-> res,
     inner |-> inner, pre |-> file, post |-> written,
     backup |-> << >>, shown |-> << >>]

\* Permission bits are numbers: 0o600 = 384, 0o700 = 448.
MODE_FILE == 384

MODE_DIR == 448

\* The bits of mode that umask leaves: mode & !umask over the nine bits.
RECURSIVE MaskedFrom(_, _, _)
MaskedFrom(mode, umask, i) ==
    IF i > 8 THEN 0
    ELSE (IF (mode \div (2 ^ i)) % 2 = 1 /\ (umask \div (2 ^ i)) % 2 = 0
          THEN 2 ^ i ELSE 0) + MaskedFrom(mode, umask, i + 1)

Masked(mode, umask) == MaskedFrom(mode, umask, 0)

\* Group or other permission bits are set.
Shared(mode) == mode % 64 # 0

\* The data directory <data_local_dir>/rsk-rust-cli and the registry file in
\* it on a machine where neither exists yet; umask 0o022.  pc is where the
\* running command stands, op and res the last file-system call and its
\* result, dir0 and file0 the mode the directory and the file had when that
\* call began (0: did not exist).
FsFresh ==
    [dir_exists |-> FALSE, dir_mode |-> 0,
     file_exists |-> FALSE, file_mode |-> 0,
     umask |-> 18, pc |-> "idle", op |-> "none", res |-> "none",
     dir0 |-> 0, file0 |-> 0]

\* A scope that has built no wrapper yet: no wrappers, an empty heap, nothing
\* read through expose().
MemFresh ==
    [wrappers |-> << >>, heap |-> << >>, scope |-> "open", read |-> << >>]

\* A source file in which nothing is written yet.
ProgFresh == [text |-> << >>, phase |-> "editing", slots |-> << >>]

\* The processes that run a wallet command on the same registry file.
Procs == {1, 2}

\* A process that has not started its command.
Idle ==
    [pc |-> "idle", op |-> "none", args |-> NoArgs, loaded |-> WalletData_new,
     written |-> WalletData_new, res |-> "none"]

\* No process started, nothing written, the file's length not yet looked at.
RaceFresh == [procs |-> [p \in Procs |-> Idle], writes |-> << >>, tail |-> 0]

\* No call of Wallet::new, encrypt_private_key or decrypt_private_key made.
NoCall ==
    [fn |-> "none", args |-> << >>, res |-> "none", key |-> << >>,
     raw |-> << >>, plaintext |-> << >>, value |-> << >>]

\* No transfer sent: the receipt loop has not been entered.
NoReceipt == [status |-> FALSE, gas_used |-> 0]

NoResult == [returned |-> "none", tx_hash |-> 0, gas_used |-> 0,
             gas_price |-> 0, status |-> 0]

PollFresh ==
    [pc |-> "idle", tx_hash |-> 0, retries |-> 0, outcomes |-> << >>,
     slept |-> 0, receipt |-> NoReceipt, result |-> NoResult]

Init ==
    /\ entry = NoEntry
    /\ out = NoOut
    /\ wd = WalletData_new
    /\ file = Absent
    /\ last = NoOp
    /\ fs = FsFresh
    /\ mem = MemFresh
    /\ prog = ProgFresh
    /\ race = RaceFresh
    /\ call = NoCall
    /\ poll = PollFresh

---------------------------------------------------------------------------
(* Keystore entry: build and decrypt *)

\* Every entry Wallet::new can build from a key and a password, with the
\* key and password that built it.
EntryInputs ==
    {[made |-> TRUE,
      wallet |-> Wallet_new(k, "main", p, rs, rn),
      key |-> k,
      password |-> p] :
        k \in Keys, p \in Passwords, rs \in Draws, rn \in Draws}

NewWallet(e) ==
    /\ entry' = e
    /\ out' = NoOut
    /\ UNCHANGED <<wd, file, last, fs, mem, prog, race, call, poll>>

Decrypt(password) ==
    /\ entry.made
    /\ LET r == decrypt_private_key(entry.wallet, password)
       IN  out' = [done |-> TRUE, password |-> password,
                   res |-> r.res, value |-> r.value]
    /\ UNCHANGED <<entry, wd, file, last, fs, mem, prog, race, call, poll>>

NextCrypto ==
    \/ \E e \in EntryInputs : NewWallet(e)
    \/ \E p \in Passwords : Decrypt(p)

SpecCrypto == Init /\ [][NextCrypto]_vars

---------------------------------------------------------------------------
(* WalletData driven through its methods *)

\* Wallet::new for every key, name, password and draw the commands are run
\* with (one draw r gives the salt and the nonce).
NewWallets ==
    [k \in Keys, n \in Names, p \in CmdPasswords, r \in CmdDraws |->
        Wallet_new(k, n, p, r, r)]

\* The entries handed to add_wallet.
WalletInputs ==
    {NewWallets[k, n, p, r] :
        k \in Keys, n \in Names, p \in CmdPasswords, r \in CmdDraws}

\* The entries handed to rename_wallet, which reads only their address.
RenameInputs == {NewWallets[k, "main", <<97>>, 1] : k \in Keys}

\* The address strings handed to switch_wallet and remove_wallet.
AddressInputs == {FormatAddress(AddressOf(k)) : k \in Keys} \cup {<< >>}

AddWallet(w) ==
    /\ LET r == add_wallet(wd, w)
       IN  /\ wd' = r.data
           /\ last' = Called("add_wallet", [NoArgs EXCEPT !.wallet = <<w>>], r, wd)
    /\ UNCHANGED <<entry, out, file, fs, mem, prog, race, call, poll>>

SwitchWallet(address) ==
    /\ LET r == switch_wallet(wd, address)
       IN  /\ wd' = r.data
           /\ last' = Called("switch_wallet",
                             [NoArgs EXCEPT !.address = address], r, wd)
    /\ UNCHANGED <<entry, out, file, fs, mem, prog, race, call, poll>>

RemoveWallet(address) ==
    /\ LET r == remove_wallet(wd, address)
       IN  /\ wd' = r.data
           /\ last' = Called("remove_wallet",
                             [NoArgs EXCEPT !.address = address], r, wd)
    /\ UNCHANGED <<entry, out, file, fs, mem, prog, race, call, poll>>

RenameWallet(w, new_name) ==
    /\ LET r == rename_wallet(wd, w, new_name)
       IN  /\ wd' = r.data
           /\ last' = Called("rename_wallet",
                             [NoArgs EXCEPT !.wallet = <<w>>,
                                            !.new_name = new_name], r, wd)
    /\ UNCHANGED <<entry, out, file, fs, mem, prog, race, call, poll>>

NextRegistry ==
    \/ \E w \in WalletInputs : AddWallet(w)
    \/ \E a \in AddressInputs : SwitchWallet(a)
    \/ \E a \in AddressInputs : RemoveWallet(a)
    \/ \E w \in RenameInputs, n \in Names \cup {""} : RenameWallet(w, n)

SpecRegistry == Init /\ [][NextRegistry]_vars

---------------------------------------------------------------------------
(* Keystore entry: claims *)

\* C1: decrypting an entry with the password that built it never fails and
\* returns "0x" followed by the lowercase hex text of exactly the 32-byte
\* key the entry was built from.
C1_RoundTrip ==
    (out.done /\ out.password = entry.password) =>
        /\ out.res = "Ok"
        /\ Len(out.value) = 2 + 2 * KEY_LEN
        /\ SubSeq(out.value, 1, 2) = <<"0", "x">>
        /\ \A i \in 3..Len(out.value) : out.value[i] \in DOMAIN HexValues
        /\ HexDecode(SubSeq(out.value, 3, Len(out.value))) = entry.key

C1_Witness ==
    /\ out.done
    /\ out.password = entry.password
    /\ out.res = "Ok"
    /\ Len(out.password) > 0

\* C2: decrypting an entry with any password other than the one that built
\* it returns the "Incorrect password" error and no key value.
C2_WrongPassword ==
    (out.done /\ out.password # entry.password) =>
        /\ out.res = "Incorrect password"
        /\ out.value = << >>

C2_Witness ==
    /\ out.done
    /\ out.password # entry.password
    /\ out.res = "Incorrect password"

---------------------------------------------------------------------------
(* WalletCommand: the wallet commands, each a load, a change and a write *)

\* fs::read_to_string + serde_json::from_str of the registry file.
Loaded == file.data

\* write_secure(&wallet_file, &serde_json::to_string_pretty(&wallet_data)?)
Written(d) == OnDisk(d)

Finish(op, args, res, inner, written) ==
    /\ file' = written
    /\ last' = Ran(op, args, res, inner, written)
    /\ UNCHANGED <<entry, out, wd, fs, mem, prog, race, call, poll>>

Abort(op, args, res) == Finish(op, args, res, "none", file)

\* create_wallet that adds the new entry to a fresh registry instead of the
\* one it loaded.
CreateWalletFresh(name, password, k, r) ==
    LET args == [NoArgs EXCEPT !.name = name, !.password = password,
                               !.address = FormatAddress(AddressOf(k))]
    IN  IF file.exists /\ ~file.parses
        THEN Abort("create_wallet", args, "ParseError")
        ELSE IF file.exists /\ get_wallet_by_name(Loaded, name) # {}
        THEN Abort("create_wallet", args, "DuplicateName")
        ELSE /\ FormatAddress(AddressOf(k)) \notin DOMAIN Loaded.wallets
             /\ LET wallet == NewWallets[k, name, password, r]
                    added == add_wallet(WalletData_new, wallet)
                IN  Finish("create_wallet", args, "Ok", added.res,
                           Written(added.data))

\* WalletCommand::create_wallet; k is the key PrivateKeySigner::random()
\* returns (never one already in the registry), r the OsRng draw.
CreateWallet(name, password, k, r) ==
    LET args == [NoArgs EXCEPT !.name = name, !.password = password,
                               !.address = FormatAddress(AddressOf(k))]
    IN  IF file.exists /\ ~file.parses
        THEN Abort("create_wallet", args, "ParseError")
        ELSE IF file.exists /\ get_wallet_by_name(Loaded, name) # {}
        THEN Abort("create_wallet", args, "DuplicateName")
        ELSE /\ FormatAddress(AddressOf(k)) \notin DOMAIN Loaded.wallets
             /\ LET wallet == NewWallets[k, name, password, r]
                    wallet_data == IF file.exists THEN Loaded ELSE WalletData_new
                    added == add_wallet(wallet_data, wallet)
                IN  Finish("create_wallet", args, "Ok", added.res,
                           Written(added.data))

\* WalletCommand::import_wallet; private_key is <<k>> for the text of key k
\* and << >> for a text PrivateKeySigner::from_str rejects.
ImportWallet(private_key, name, password, r) ==
    IF private_key = << >>
    THEN Abort("import_wallet",
               [NoArgs EXCEPT !.name = name, !.password = password],
               "InvalidKey")
    ELSE LET k == private_key[1]
             args == [NoArgs EXCEPT !.name = name, !.password = password,
                                    !.address = FormatAddress(AddressOf(k))]
             wallet == NewWallets[k, name, password, r]
             wallet_data == IF file.exists THEN Loaded ELSE WalletData_new
             added == add_wallet(wallet_data, wallet)
         IN  IF file.exists /\ ~file.parses
             THEN Abort("import_wallet", args, "ParseError")
             ELSE Finish("import_wallet", args, "Ok", added.res,
                         Written(added.data))

\* WalletCommand::switch_wallet
SwitchCommand(name) ==
    LET args == [NoArgs EXCEPT !.name = name]
    IN  IF ~file.exists THEN Abort("switch_wallet", args, "IOFailure")
        ELSE IF ~file.parses THEN Abort("switch_wallet", args, "ParseError")
        ELSE IF get_wallet_by_name(Loaded, name) = {}
        THEN Abort("switch_wallet", args, "NotFound")
        ELSE \E found \in get_wallet_by_name(Loaded, name) :
                LET address == FormatAddress(found.address)
                    switched == switch_wallet(Loaded, address)
                IN  Finish("switch_wallet", [args EXCEPT !.address = address],
                           "Ok", switched.res, Written(switched.data))

\* rename_wallet without the check that the new name is free.
RenameCommandNoDuplicateCheck(old_name, new_name) ==
    LET args == [NoArgs EXCEPT !.name = old_name, !.new_name = new_name]
    IN  IF ~file.exists THEN Abort("rename_wallet", args, "NoWalletsFound")
        ELSE IF ~file.parses THEN Abort("rename_wallet", args, "ParseError")
        ELSE IF get_wallet_by_name(Loaded, old_name) = {}
        THEN Abort("rename_wallet", args, "NotFound")
        ELSE \E wallet \in get_wallet_by_name(Loaded, old_name) :
                LET address == FormatAddress(wallet.address)
                    args2 == [args EXCEPT !.address = address]
                IN  IF new_name = ""
                    THEN Abort("rename_wallet", args2, "InvalidName")
                    ELSE Finish("rename_wallet", args2, "Ok", "none",
                                Written([Loaded EXCEPT
                                    !.wallets[address].name = new_name]))

\* WalletCommand::rename_wallet
RenameCommand(old_name, new_name) ==
    LET args == [NoArgs EXCEPT !.name = old_name, !.new_name = new_name]
    IN  IF ~file.exists THEN Abort("rename_wallet", args, "NoWalletsFound")
        ELSE IF ~file.parses THEN Abort("rename_wallet", args, "ParseError")
        ELSE IF get_wallet_by_name(Loaded, old_name) = {}
        THEN Abort("rename_wallet", args, "NotFound")
        ELSE \E wallet \in get_wallet_by_name(Loaded, old_name) :
                LET address == FormatAddress(wallet.address)
                    args2 == [args EXCEPT !.address = address]
                IN  IF new_name = ""
                    THEN Abort("rename_wallet", args2, "InvalidName")
                    ELSE IF get_wallet_by_name(Loaded, new_name) # {}
                    THEN Abort("rename_wallet", args2, "DuplicateName")
                    ELSE IF address \notin DOMAIN Loaded.wallets
                    THEN Abort("rename_wallet", args2, "RenameFailed")
                    ELSE Finish("rename_wallet", args2, "Ok", "none",
                                Written([Loaded EXCEPT
                                    !.wallets[address].name = new_name]))

\* delete_wallet without the check against the current wallet.
DeleteCommandUnguarded(name) ==
    LET args == [NoArgs EXCEPT !.name = name]
    IN  IF ~file.exists THEN Abort("delete_wallet", args, "IOFailure")
        ELSE IF ~file.parses THEN Abort("delete_wallet", args, "ParseError")
        ELSE IF get_wallet_by_name(Loaded, name) = {}
        THEN Abort("delete_wallet", args, "NotFound")
        ELSE \E wallet \in get_wallet_by_name(Loaded, name) :
                LET address == FormatAddress(wallet.address)
                    args2 == [args EXCEPT !.address = address]
                    removed == remove_wallet(Loaded, address)
                IN  Finish("delete_wallet", args2, "Ok", removed.res,
                           Written(removed.data))

\* WalletCommand::delete_wallet
DeleteCommand(name) ==
    LET args == [NoArgs EXCEPT !.name = name]
    IN  IF ~file.exists THEN Abort("delete_wallet", args, "IOFailure")
        ELSE IF ~file.parses THEN Abort("delete_wallet", args, "ParseError")
        ELSE IF get_wallet_by_name(Loaded, name) = {}
        THEN Abort("delete_wallet", args, "NotFound")
        ELSE \E wallet \in get_wallet_by_name(Loaded, name) :
                LET address == FormatAddress(wallet.address)
                    args2 == [args EXCEPT !.address = address]
                    removed == remove_wallet(Loaded, address)
                IN  IF Loaded.current_wallet = address
                    THEN Abort("delete_wallet", args2, "CannotDeleteActive")
                    ELSE Finish("delete_wallet", args2, "Ok", removed.res,
                                Written(removed.data))

\* The three fields of an entry that decrypt_private_key reads.
StoredCrypto(w) ==
    [encrypted_private_key |-> w.encrypted_private_key,
     salt |-> w.salt, iv |-> w.iv]

\* decrypt_private_key on every entry the commands store, with every
\* password they are run with.
Decrypted ==
    [c \in {StoredCrypto(w) : w \in WalletInputs}, p \in CmdPasswords |->
        decrypt_private_key(c, p)]

\* The outcome of a command that leaves the registry file alone and writes
\* a backup file or prints a key text.
Output(op, args, res, inner, backup, shown) ==
    /\ last' = [Ran(op, args, res, inner, file) EXCEPT !.backup = backup,
                                                       !.shown = shown]
    /\ UNCHANGED <<entry, out, wd, file, fs, mem, prog, race, call, poll>>

\* backup_wallet that writes the decrypted key text in place of the
\* encrypted one.
BackupCommandPlain(name) ==
    LET args == [NoArgs EXCEPT !.name = name]
    IN  IF ~file.exists THEN Abort("backup_wallet", args, "NoWalletsFound")
        ELSE IF ~file.parses THEN Abort("backup_wallet", args, "ParseError")
        ELSE IF get_wallet_by_name(Loaded, name) = {}
        THEN Abort("backup_wallet", args, "NotFound")
        ELSE \E wallet \in get_wallet_by_name(Loaded, name), p \in CmdPasswords :
                Output("backup_wallet",
                       [args EXCEPT !.address = FormatAddress(wallet.address)],
                       "Ok", "none",
                       << [wallet EXCEPT !.encrypted_private_key =
                              decrypt_private_key(wallet, p).value] >>, << >>)

\* WalletCommand::backup_wallet: the entry of that name, as stored, goes to
\* the file at path.  (No name of Names ends in ".json".)
BackupCommand(name) ==
    LET args == [NoArgs EXCEPT !.name = name]
    IN  IF ~file.exists THEN Abort("backup_wallet", args, "NoWalletsFound")
        ELSE IF ~file.parses THEN Abort("backup_wallet", args, "ParseError")
        ELSE IF get_wallet_by_name(Loaded, name) = {}
        THEN Abort("backup_wallet", args, "NotFound")
        ELSE \E wallet \in get_wallet_by_name(Loaded, name) :
                Output("backup_wallet",
                       [args EXCEPT !.address = FormatAddress(wallet.address)],
                       "Ok", "none", <<wallet>>, << >>)

\* interactive::wallet::show_private_key, once the user has confirmed: the
\* key of the current wallet is decrypted and printed.
ShowPrivateKey(password) ==
    LET args == [NoArgs EXCEPT !.password = password]
    IN  IF ~file.exists THEN Abort("show_private_key", args, "Ok")
        ELSE IF ~file.parses THEN Abort("show_private_key", args, "ParseError")
        ELSE IF get_current_wallet(Loaded) = << >>
        THEN Abort("show_private_key", args, "NoWalletSelected")
        ELSE LET current_wallet == get_current_wallet(Loaded)[1]
                 r == Decrypted[StoredCrypto(current_wallet), password]
             IN  Output("show_private_key",
                        [args EXCEPT !.address =
                            FormatAddress(current_wallet.address)],
                        "Ok", r.res, << >>, r.value)

\* TransferCommand::execute_with_password: the key of the current wallet is
\* decrypted and handed to the client; sent is whether the network took the
\* transaction.
TransferCommand(password, sent) ==
    LET args == [NoArgs EXCEPT !.password = password]
    IN  IF ~file.exists THEN Abort("transfer", args, "NoWalletsFound")
        ELSE IF ~file.parses THEN Abort("transfer", args, "ParseError")
        ELSE IF get_current_wallet(Loaded) = << >>
        THEN Abort("transfer", args, "NoDefaultWallet")
        ELSE LET default_wallet == get_current_wallet(Loaded)[1]
                 r == Decrypted[StoredCrypto(default_wallet), password]
                 args2 == [args EXCEPT !.address =
                              FormatAddress(default_wallet.address)]
             IN  IF r.res # "Ok" THEN Abort("transfer", args2, r.res)
                 ELSE Output("transfer", args2,
                             IF sent THEN "Ok" ELSE "NetworkError",
                             r.res, << >>, << >>)

\* WalletData::switch_wallet called with any address on the registry as
\* loaded from the file.
SwitchLoaded(address) ==
    /\ file.exists
    /\ file.parses
    /\ LET r == switch_wallet(Loaded, address)
       IN  last' = Called("switch_wallet",
                          [NoArgs EXCEPT !.address = address], r, Loaded)
    /\ UNCHANGED <<entry, out, wd, file, fs, mem, prog, race, call, poll>>

\* WalletData::remove_wallet called with any address on the registry as
\* loaded from the file: the call delete_wallet makes, without delete_wallet's
\* own check before it.
RemoveLoaded(address) ==
    /\ file.exists
    /\ file.parses
    /\ LET r == remove_wallet(Loaded, address)
       IN  last' = Called("remove_wallet",
                          [NoArgs EXCEPT !.address = address], r, Loaded)
    /\ UNCHANGED <<entry, out, wd, file, fs, mem, prog, race, call, poll>>

NextCommand ==
    \/ \E n \in Names, p \in CmdPasswords, k \in Keys, r \in CmdDraws :
          CreateWallet(n, p, k, r)
    \/ \E pk \in {<<k>> : k \in Keys} \cup {<< >>},
          n \in Names, p \in CmdPasswords, r \in CmdDraws :
          ImportWallet(pk, n, p, r)
    \/ \E n \in Names : SwitchCommand(n)
    \/ \E n \in Names, m \in Names \cup {""} : RenameCommand(n, m)
    \/ \E n \in Names : DeleteCommand(n)
    \/ \E n \in Names : BackupCommand(n)
    \/ \E p \in CmdPasswords : ShowPrivateKey(p)
    \/ \E p \in CmdPasswords, sent \in BOOLEAN : TransferCommand(p, sent)
    \/ \E a \in AddressInputs : SwitchLoaded(a)
    \/ \E a \in AddressInputs : RemoveLoaded(a)

Next == NextCommand

Spec == Init /\ [][Next]_vars

---------------------------------------------------------------------------
(* Registry: claims *)

Pre == last.pre.data

Post == last.post.data

IsCall(op) == last.level = "registry" /\ last.op = op

IsCommand(op) == last.level = "command" /\ last.op = op

Named(d, name) == {a \in DOMAIN d.wallets : d.wallets[a].name = name}

\* The entries of d other than the one under address are those of e.
SameOthers(d, e, address) ==
    /\ (DOMAIN d.wallets) \ {address} = (DOMAIN e.wallets) \ {address}
    /\ \A a \in (DOMAIN d.wallets) \ {address} : d.wallets[a] = e.wallets[a]

SameRest(d, e) == d.contacts = e.contacts /\ d.api_key = e.api_key

\* C3 as stated: a removal aimed at the address of the non-empty current
\* wallet, by remove_wallet or by the delete command, fails with
\* CannotDeleteActive and leaves the registry as it was.
C3_RemoveCurrentAlwaysFails ==
    (/\ last.op \in {"remove_wallet", "delete_wallet"}
     /\ Pre.current_wallet # << >>
     /\ last.args.address = Pre.current_wallet) =>
        /\ last.res = "CannotDeleteActive"
        /\ last.post = last.pre

\* C3 amended: the delete command aimed at the current wallet fails with
\* CannotDeleteActive and leaves the registry file as it was, while
\* WalletData::remove_wallet called with the current address succeeds,
\* removes the entry and resets current_wallet to the empty string.
C3_DeleteCommandGuard ==
    /\ (/\ IsCommand("delete_wallet")
        /\ Pre.current_wallet # << >>
        /\ last.args.address = Pre.current_wallet) =>
            /\ last.res = "CannotDeleteActive"
            /\ last.post = last.pre
            /\ file = last.pre
    /\ (/\ IsCall("remove_wallet")
        /\ Pre.current_wallet # << >>
        /\ last.args.address = Pre.current_wallet) =>
            /\ last.res = "Ok"
            /\ last.args.address \notin DOMAIN Post.wallets
            /\ Post.current_wallet = << >>
            /\ file = last.pre

C3_Witness ==
    /\ IsCommand("delete_wallet")
    /\ last.res = "CannotDeleteActive"
    /\ Cardinality(DOMAIN Pre.wallets) > 1

\* C4: add_wallet with an entry whose canonical address is already a key is
\* rejected with DuplicateAddress and leaves the registry as it was: same
\* entries, the entry under that address not replaced, current unchanged.
C4_DuplicateAddressRejected ==
    (/\ IsCall("add_wallet")
     /\ FormatAddress(last.args.wallet[1].address) \in DOMAIN Pre.wallets) =>
        /\ last.res = "DuplicateAddress"
        /\ Post = Pre
        /\ wd = Pre

C4_Witness ==
    /\ IsCall("add_wallet")
    /\ last.res = "DuplicateAddress"
    /\ LET address == FormatAddress(last.args.wallet[1].address)
       IN  /\ Pre.wallets[address] # last.args.wallet[1]
           /\ Pre.current_wallet # address

\* C5: after any sequence of add_wallet, switch_wallet, rename_wallet and
\* remove_wallet calls on an empty registry, current_wallet is the empty
\* string or a key of wallets.
C5_NoDanglingCurrent ==
    \/ wd.current_wallet = << >>
    \/ wd.current_wallet \in DOMAIN wd.wallets

C5_Witness ==
    /\ IsCall("remove_wallet")
    /\ last.res = "Ok"
    /\ last.args.address = Pre.current_wallet
    /\ wd.current_wallet = << >>
    /\ DOMAIN wd.wallets # {}

\* C6: no two entries of the registry file have the same name.
C6_NamesUnique ==
    \A a, b \in DOMAIN file.data.wallets :
        a # b => file.data.wallets[a].name # file.data.wallets[b].name

\* C7: add_wallet with an entry whose address is not a key inserts it under
\* "0x" + lowercase hex of its address and makes it current: current_wallet
\* is that key, get_current_wallet returns the entry, and the entries that
\* were there are unchanged.
C7_AddInsertsAndSelects ==
    (/\ IsCall("add_wallet")
     /\ FormatAddress(last.args.wallet[1].address) \notin DOMAIN Pre.wallets) =>
        LET w == last.args.wallet[1]
            address == Post.current_wallet
        IN  /\ last.res = "Ok"
            /\ wd = Post
            /\ Len(address) = 2 + 2 * ADDRESS_LEN
            /\ SubSeq(address, 1, 2) = <<"0", "x">>
            /\ \A i \in 3..Len(address) : address[i] \in DOMAIN HexValues
            /\ HexDecode(SubSeq(address, 3, Len(address))) = w.address
            /\ DOMAIN Post.wallets = (DOMAIN Pre.wallets) \cup {address}
            /\ Post.wallets[address] = w
            /\ get_current_wallet(Post) = <<w>>
            /\ \A a \in DOMAIN Pre.wallets : Post.wallets[a] = Pre.wallets[a]
            /\ SameRest(Post, Pre)

C7_Witness ==
    /\ IsCall("add_wallet")
    /\ last.res = "Ok"
    /\ DOMAIN Pre.wallets # {}
    /\ Pre.current_wallet # << >>

\* C8: switch_wallet with a present address sets current_wallet to it and
\* changes nothing else, with an absent address it fails with NotFound and
\* changes nothing; the switch command with a name no entry has fails with
\* NotFound (with the read error when there is no registry file) and leaves
\* the file as it was, and with a name an entry has it writes the registry
\* with current_wallet set to that entry's address and nothing else changed.
C8_Switch ==
    /\ IsCall("switch_wallet") =>
          IF last.args.address \in DOMAIN Pre.wallets
          THEN /\ last.res = "Ok"
               /\ Post.current_wallet = last.args.address
               /\ Post.wallets = Pre.wallets
               /\ SameRest(Post, Pre)
          ELSE /\ last.res = "NotFound"
               /\ Post = Pre
    /\ IsCommand("switch_wallet") =>
          /\ file = last.post
          /\ IF ~last.pre.exists
             THEN last.res = "IOFailure" /\ last.post = last.pre
             ELSE IF Named(Pre, last.args.name) = {}
             THEN last.res = "NotFound" /\ last.post = last.pre
             ELSE /\ last.res = "Ok"
                  /\ last.post.exists
                  /\ Post.current_wallet \in Named(Pre, last.args.name)
                  /\ Post.wallets = Pre.wallets
                  /\ SameRest(Post, Pre)

C8_Witness ==
    /\ IsCommand("switch_wallet")
    /\ last.res = "NotFound"
    /\ DOMAIN Pre.wallets # {}
    /\ Pre.current_wallet # << >>

\* C9: the rename command succeeds exactly when an entry named name exists,
\* new_name is not empty and no entry is named new_name; otherwise it fails
\* (NotFound, InvalidName, DuplicateName; "No wallets found" without a
\* registry file) and the file is as it was.  On success one entry of that
\* name has the new name and nothing else differs: its other fields, its
\* key in the map, the other entries and current_wallet.
C9_Rename ==
    IsCommand("rename_wallet") =>
        LET name == last.args.name
            new_name == last.args.new_name
            can == /\ last.pre.exists
                   /\ Named(Pre, name) # {}
                   /\ new_name # ""
                   /\ Named(Pre, new_name) = {}
        IN  /\ file = last.post
            /\ (last.res = "Ok") = can
            /\ ~can =>
                  /\ last.post = last.pre
                  /\ last.res =
                       IF ~last.pre.exists THEN "NoWalletsFound"
                       ELSE IF Named(Pre, name) = {} THEN "NotFound"
                       ELSE IF new_name = "" THEN "InvalidName"
                       ELSE "DuplicateName"
            /\ can =>
                  \E a \in Named(Pre, name) :
                      /\ Post.wallets[a].name = new_name
                      /\ \A f \in (DOMAIN Pre.wallets[a]) \ {"name"} :
                            Post.wallets[a][f] = Pre.wallets[a][f]
                      /\ DOMAIN Post.wallets[a] = DOMAIN Pre.wallets[a]
                      /\ SameOthers(Post, Pre, a)
                      /\ DOMAIN Post.wallets = DOMAIN Pre.wallets
                      /\ Post.current_wallet = Pre.current_wallet
                      /\ SameRest(Post, Pre)

C9_Witness ==
    /\ IsCommand("rename_wallet")
    /\ last.res = "DuplicateName"
    /\ last.args.name # last.args.new_name

\* C10: remove_wallet with an address that is no key fails with NotFound and
\* changes nothing; with a key other than current_wallet it deletes exactly
\* that entry and leaves current_wallet and every other entry as they were.
\* The delete command does the same for a name no entry has and for the
\* name of an entry that is not the current one.
C10_Remove ==
    /\ IsCall("remove_wallet") =>
          IF last.args.address \notin DOMAIN Pre.wallets
          THEN last.res = "NotFound" /\ Post = Pre
          ELSE last.args.address # Pre.current_wallet =>
                  /\ last.res = "Ok"
                  /\ DOMAIN Post.wallets = (DOMAIN Pre.wallets) \ {last.args.address}
                  /\ SameOthers(Post, Pre, last.args.address)
                  /\ Post.current_wallet = Pre.current_wallet
                  /\ SameRest(Post, Pre)
    /\ IsCommand("delete_wallet") =>
          /\ file = last.post
          /\ IF ~last.pre.exists
             THEN last.res = "IOFailure" /\ last.post = last.pre
             ELSE IF Named(Pre, last.args.name) = {}
             THEN last.res = "NotFound" /\ last.post = last.pre
             ELSE last.args.address # Pre.current_wallet =>
                  /\ last.res = "Ok"
                  /\ last.args.address \in Named(Pre, last.args.name)
                  /\ DOMAIN Post.wallets = (DOMAIN Pre.wallets) \ {last.args.address}
                  /\ SameOthers(Post, Pre, last.args.address)
                  /\ Post.current_wallet = Pre.current_wallet
                  /\ SameRest(Post, Pre)

C10_Witness ==
    /\ IsCommand("delete_wallet")
    /\ last.res = "Ok"
    /\ last.args.address \notin DOMAIN file.data.wallets
    /\ file.data.current_wallet = Pre.current_wallet
    /\ file.data.current_wallet # << >>

\* C11: remove_wallet called with the key that current_wallet holds succeeds
\* and leaves a registry without that entry, with current_wallet the empty
\* string and get_current_wallet returning None.
C11_RemoveCurrentResets ==
    (/\ IsCall("remove_wallet")
     /\ last.args.address \in DOMAIN Pre.wallets
     /\ last.args.address = Pre.current_wallet) =>
        /\ last.res = "Ok"
        /\ last.args.address \notin DOMAIN Post.wallets
        /\ Post.current_wallet = << >>
        /\ get_current_wallet(Post) = << >>
        /\ SameOthers(Post, Pre, last.args.address)
        /\ wd = Post

C11_Witness ==
    /\ IsCall("remove_wallet")
    /\ last.args.address \in DOMAIN Pre.wallets
    /\ last.args.address = Pre.current_wallet
    /\ get_current_wallet(Pre) # << >>
    /\ get_current_wallet(wd) = << >>
    /\ DOMAIN wd.wallets # {}

---------------------------------------------------------------------------
(* Keystore entries as read back from a registry file *)

\* The three fields are Strings to serde: a file can hold any text in them.
Resize(b, n) == [i \in 1..n |-> IF i <= Len(b) THEN b[i] ELSE 0]

Bump(b, i) == [b EXCEPT ![i] = (@ + 1) % 256]

\* A text with a character outside the base64 alphabet.
BadChar(s) == IF Len(s) = 0 THEN <<"!">> ELSE [s EXCEPT ![1] = "!"]

\* A text whose length is not a multiple of four.
DropLast(s) == IF Len(s) = 0 THEN <<"A">> ELSE SubSeq(s, 1, Len(s) - 1)

BadText(s, how) == IF how = "char" THEN BadChar(s) ELSE DropLast(s)

TextDefects == {"char", "length"}

\* Lengths a decoded salt can have instead of 16.
SaltLens == {0, SALT_LEN - 1, SALT_LEN + 1}

\* Lengths a decoded nonce can have instead of 12; 16 is an AES-CBC IV.
NonceLens == {0, NONCE_LEN - 1, NONCE_LEN + 1, 16}

\* Lengths of a byte string handed to encrypt_private_key instead of 32.
KeyLens == {0, 16, KEY_LEN - 1, KEY_LEN + 1}

\* The entry Wallet::new builds for key k and password p, changed as kind
\* and how say; key is the byte string that was encrypted, base the entry as
\* built.
StoredEntry(k, p, kind, how) ==
    LET built == NewWallets[k, "main", p, 1]
        enc == encrypt_private_key(k, p, 1, 1)
        data == enc[1]
        other == Resize(k, how)
        wallet ==
            CASE kind = "intact" -> built
              [] kind = "salt_text" ->
                    [built EXCEPT !.salt = BadText(@, how)]
              [] kind = "iv_text" ->
                    [built EXCEPT !.iv = BadText(@, how)]
              [] kind = "key_text" ->
                    [built EXCEPT !.encrypted_private_key = BadText(@, how)]
              [] kind = "salt_len" ->
                    [built EXCEPT !.salt = B64Encode(Resize(enc[3], how))]
              [] kind = "iv_len" ->
                    [built EXCEPT !.iv = B64Encode(Resize(enc[2], how))]
              [] kind = "salt_len_iv_len" ->
                    [built EXCEPT !.salt = B64Encode(Resize(enc[3], how)),
                                  !.iv = B64Encode(Resize(enc[2], how))]
              [] kind = "key_len" ->
                    [built EXCEPT !.encrypted_private_key =
                        B64Encode(encrypt_private_key(other, p, 1, 1)[1])]
              [] kind = "ciphertext" ->
                    [built EXCEPT !.encrypted_private_key =
                        B64Encode(Bump(data, how))]
              [] kind = "tag" ->
                    [built EXCEPT !.encrypted_private_key =
                        B64Encode(Bump(data, Len(data) + 1 - how))]
              [] kind = "truncated" ->
                    [built EXCEPT !.encrypted_private_key =
                        B64Encode(SubSeq(data, 1, how))]
    IN  [made |-> TRUE,
         wallet |-> wallet,
         base |-> built,
         key |-> IF kind = "key_len" THEN other ELSE k,
         password |-> p,
         kind |-> kind,
         how |-> how]

\* The changes tried, as <<kind, how>>.
StoredKinds ==
    {<<"intact", 0>>}
    \cup ({"salt_text", "iv_text", "key_text"} \X TextDefects)
    \cup ({"salt_len"} \X SaltLens)
    \cup ({"iv_len"} \X NonceLens)
    \cup {<<"salt_len_iv_len", SALT_LEN - 1>>}
    \cup ({"key_len"} \X KeyLens)
    \cup {<<"ciphertext", 1>>, <<"tag", 1>>}
    \cup ({"truncated"} \X {0, TAG_LEN - 1, KEY_LEN + TAG_LEN - 1})

StoredInputs ==
    {StoredEntry(k, p, c[1], c[2]) :
        k \in Keys, p \in CmdPasswords, c \in StoredKinds}

\* serde_json::from_str: an entry of the registry file becomes a Wallet.
ReadWallet(e) ==
    /\ entry' = e
    /\ out' = NoOut
    /\ UNCHANGED <<wd, file, last, fs, mem, prog, race, call, poll>>

NextStored ==
    \/ \E e \in StoredInputs : ReadWallet(e)
    \/ \E p \in Passwords : Decrypt(p)

SpecStored == Init /\ [][NextStored]_vars

FormatErrors ==
    {"Failed to decode salt", "Failed to decode nonce/IV",
     "Failed to decode encrypted private key", "Salt must be 16 bytes",
     "Unsupported encryption format",
     "Decrypted private key has invalid length"}

MalformedKinds ==
    {"salt_text", "iv_text", "key_text", "salt_len", "iv_len",
     "salt_len_iv_len"}

C13_KeyLengthChecked ==
    (/\ out.done
     /\ entry.kind = "key_len"
     /\ out.password = entry.password) =>
        /\ Len(entry.key) # KEY_LEN
        /\ AeadDecrypt(Scrypt(out.password, B64Decode(entry.wallet.salt).bytes),
                       B64Decode(entry.wallet.iv).bytes,
                       B64Decode(entry.wallet.encrypted_private_key).bytes).ok
        /\ out.res = "Decrypted private key has invalid length"
        /\ out.res \in FormatErrors
        /\ out.value = << >>

C13_Witness ==
    /\ out.done
    /\ entry.kind = "key_len"
    /\ Len(entry.key) = KEY_LEN + 1
    /\ out.password = entry.password
    /\ out.res = "Decrypted private key has invalid length"

\* The changes of stored bytes that leave the entry well formed: salt of 16
\* bytes, nonce of 12 bytes, encrypted key valid base64.
AlteredKinds == {"ciphertext", "tag", "truncated"}

\* C14: for an entry with a well-formed salt and nonce whose stored
\* ciphertext or tag was altered, decrypt_private_key with the right password
\* returns exactly what it returns for the unaltered entry and any wrong
\* password: the "Incorrect password" error and no value.
C14_NoOracle ==
    (/\ out.done
     /\ entry.kind \in AlteredKinds
     /\ out.password = entry.password) =>
        /\ entry.wallet # entry.base
        /\ out.res = "Incorrect password"
        /\ \A p \in Passwords \ {entry.password} :
              decrypt_private_key(entry.base, p) =
                  [res |-> out.res, value |-> out.value]

C14_Witness ==
    /\ out.done
    /\ entry.kind = "tag"
    /\ out.password = entry.password
    /\ out.res = "Incorrect password"
    /\ decrypt_private_key(entry.base, entry.password).res = "Ok"

---------------------------------------------------------------------------
(* Entries built one after the other: OsRng never returns the same bytes *)

\* The entry the c-th call of Wallet::new builds: encrypt_private_key makes
\* two OsRng draws per call, the salt first, the nonce second, and OsRng is
\* taken never to repeat a draw.
NthWallet ==
    [k \in Keys, p \in CmdPasswords, c \in 1..MaxCalls |->
        Wallet_new(k, "main", p, 2 * c - 1, 2 * c)]

NoCalls == [made |-> TRUE, calls |-> << >>]

\* Wallet::new followed by add_wallet, whose result the commands discard.
BuildAndAdd(k, p) ==
    LET calls == IF entry.made THEN entry.calls ELSE << >>
        wallet == NthWallet[k, p, Len(calls) + 1]
    IN  /\ Len(calls) < MaxCalls
        /\ entry' = [NoCalls EXCEPT !.calls =
                        Append(calls, [key |-> k, password |-> p,
                                       wallet |-> wallet])]
        /\ wd' = add_wallet(wd, wallet).data
        /\ UNCHANGED <<out, file, last, fs, mem, prog, race, call, poll>>

NextEncrypt == \E k \in Keys, p \in CmdPasswords : BuildAndAdd(k, p)

SpecEncrypt == Init /\ [][NextEncrypt]_vars

\* C15: any two calls of encrypt_private_key, two calls with the same key
\* and the same password included, give different salts, different nonces
\* and different ciphertexts, and no two entries of the registry have the
\* same salt and nonce.
C15_FreshSaltAndNonce ==
    /\ entry.made =>
          \A i, j \in 1..Len(entry.calls) :
             i # j =>
                LET a == entry.calls[i].wallet
                    b == entry.calls[j].wallet
                IN  /\ B64Decode(a.salt).bytes # B64Decode(b.salt).bytes
                    /\ B64Decode(a.iv).bytes # B64Decode(b.iv).bytes
                    /\ B64Decode(a.encrypted_private_key).bytes #
                          B64Decode(b.encrypted_private_key).bytes
                    /\ a.salt # b.salt
                    /\ a.iv # b.iv
                    /\ a.encrypted_private_key # b.encrypted_private_key
    /\ \A x, y \in DOMAIN wd.wallets :
          x # y => <<wd.wallets[x].salt, wd.wallets[x].iv>> #
                   <<wd.wallets[y].salt, wd.wallets[y].iv>>

C15_Witness ==
    /\ entry.made
    /\ Cardinality(DOMAIN wd.wallets) > 1
    /\ \E i, j \in 1..Len(entry.calls) :
          /\ i # j
          /\ entry.calls[i].key = entry.calls[j].key
          /\ entry.calls[i].password = entry.calls[j].password
          /\ entry.calls[i].wallet.salt # entry.calls[j].wallet.salt

---------------------------------------------------------------------------
(* secure_fs: the data directory and the registry file on a Unix system *)

\* What makes a file-system call of the standard library fail is outside
\* the program (ownership, a read-only volume, a full disk): each call of
\* a function either succeeds or fails at the step named by fail.
DirFailures == {"none", "create_dir_all", "set_permissions"}

WriteFailures == {"none", "create_dir_all", "write", "set_permissions"}

\* fs::create_dir_all: a directory that is missing is made with 0o777 & !umask.
create_dir_all(f) ==
    IF f.dir_exists THEN f
    ELSE [f EXCEPT !.dir_exists = TRUE, !.dir_mode = Masked(511, f.umask)]

\* fs::write: a file that is missing is made with 0o666 & !umask, one that
\* exists keeps its mode.
fs_write(f) ==
    IF f.file_exists THEN f
    ELSE [f EXCEPT !.file_exists = TRUE, !.file_mode = Masked(438, f.umask)]

\* secure_fs::create_dir_secure: [res, fs]
create_dir_secure(f, fail) ==
    IF fail = "create_dir_all" THEN [res |-> "Err", fs |-> f]
    ELSE LET made == create_dir_all(f)
         IN  IF fail = "set_permissions" THEN [res |-> "Err", fs |-> made]
             ELSE [res |-> "Ok", fs |-> [made EXCEPT !.dir_mode = MODE_DIR]]

\* write_secure without the set_permissions block.
write_secure_no_chmod(f, fail) ==
    IF fail = "create_dir_all" THEN [res |-> "Err", fs |-> f]
    ELSE LET parent == create_dir_all(f)
         IN  IF fail = "write" THEN [res |-> "Err", fs |-> parent]
             ELSE [res |-> "Ok", fs |-> fs_write(parent)]

\* secure_fs::write_secure: [res, fs]
write_secure(f, fail) ==
    IF fail = "create_dir_all" THEN [res |-> "Err", fs |-> f]
    ELSE LET parent == create_dir_all(f)
         IN  IF fail = "write" THEN [res |-> "Err", fs |-> parent]
             ELSE LET written == fs_write(parent)
                  IN  IF fail = "set_permissions"
                      THEN [res |-> "Err", fs |-> written]
                      ELSE [res |-> "Ok",
                            fs |-> [written EXCEPT !.file_mode = MODE_FILE]]

\* constants::wallet_file_path, the first step of every command that
\* touches the registry file: create_dir_secure(..).expect(..) panics on Err.
WalletFilePath(fail) ==
    /\ fs.pc = "idle"
    /\ LET r == create_dir_secure(fs, fail)
       IN  fs' = [r.fs EXCEPT
                     !.pc = IF r.res = "Ok" THEN "path" ELSE "idle",
                     !.op = "wallet_file_path",
                     !.res = IF r.res = "Ok" THEN "Ok" ELSE "Panic",
                     !.dir0 = IF fs.dir_exists THEN fs.dir_mode ELSE 0,
                     !.file0 = IF fs.file_exists THEN fs.file_mode ELSE 0]
    /\ UNCHANGED <<entry, out, wd, file, last, mem, prog, race, call, poll>>

\* The write_secure call that ends a command which changes the registry.
WriteSecure(fail) ==
    /\ fs.pc = "path"
    /\ LET r == write_secure(fs, fail)
       IN  fs' = [r.fs EXCEPT
                     !.pc = "idle",
                     !.op = "write_secure",
                     !.res = r.res,
                     !.dir0 = IF fs.dir_exists THEN fs.dir_mode ELSE 0,
                     !.file0 = IF fs.file_exists THEN fs.file_mode ELSE 0]
    /\ UNCHANGED <<entry, out, wd, file, last, mem, prog, race, call, poll>>

\* A command that ends without a write: it only reads, or it fails first.
NoWrite ==
    /\ fs.pc = "path"
    /\ fs' = [fs EXCEPT !.pc = "idle", !.op = "none", !.res = "none"]
    /\ UNCHANGED <<entry, out, wd, file, last, mem, prog, race, call, poll>>

DirModes == {MODE_DIR, 493, 511}

FileModes == {MODE_FILE, 420, 438}

Umasks == {0, 18, 63}

\* Between two commands the user changes modes, removes the file or the
\* directory, or sets another umask.
Outside(f) ==
    /\ fs.pc = "idle"
    /\ fs' = [f EXCEPT !.op = "none", !.res = "none"]
    /\ fs' # fs
    /\ UNCHANGED <<entry, out, wd, file, last, mem, prog, race, call, poll>>

ChmodDir(m) == fs.dir_exists /\ Outside([fs EXCEPT !.dir_mode = m])

ChmodFile(m) == fs.file_exists /\ Outside([fs EXCEPT !.file_mode = m])

RemoveFile == fs.file_exists /\ Outside([fs EXCEPT !.file_exists = FALSE,
                                                   !.file_mode = 0])

RemoveDir ==
    fs.dir_exists /\ Outside([fs EXCEPT !.dir_exists = FALSE, !.dir_mode = 0,
                                        !.file_exists = FALSE, !.file_mode = 0])

SetUmask(u) == Outside([fs EXCEPT !.umask = u])

NextFs ==
    \/ \E fail \in DirFailures : WalletFilePath(fail)
    \/ \E fail \in WriteFailures : WriteSecure(fail)
    \/ NoWrite
    \/ \E m \in DirModes : ChmodDir(m)
    \/ \E m \in FileModes : ChmodFile(m)
    \/ RemoveFile
    \/ RemoveDir
    \/ \E u \in Umasks : SetUmask(u)

SpecFs == Init /\ [][NextFs]_vars

\* C17: whenever write_secure returns Ok the registry file exists with mode
\* 0o600, and the directory holding it existed with mode 0o700 when that
\* write began and still does; neither has a group or other permission bit.
C17_OwnerOnly ==
    /\ (fs.op = "write_secure" /\ fs.res = "Ok") =>
          /\ fs.file_exists
          /\ fs.file_mode = MODE_FILE
          /\ fs.dir0 = MODE_DIR
          /\ fs.dir_exists
          /\ fs.dir_mode = MODE_DIR
          /\ ~Shared(fs.file_mode)
          /\ ~Shared(fs.dir_mode)
    /\ fs.pc = "path" => fs.dir_exists /\ fs.dir_mode = MODE_DIR

C17_Witness ==
    /\ fs.op = "write_secure"
    /\ fs.res = "Ok"
    /\ Shared(fs.file0)
    /\ fs.umask = 0
    /\ fs.file_mode = MODE_FILE

---------------------------------------------------------------------------
(* What reaches the disk *)

\* The byte string k occurs in the byte string b.
Contains(b, k) ==
    \E i \in 1..(Len(b) - Len(k) + 1) :
        \A j \in 1..Len(k) : b[i + j - 1] = k[j]

\* The bytes a stored text stands for, empty when it is not base64.
Bytes(text) == B64Decode(text).bytes

\* The texts that would give a secret away: its base64, its hex, its hex
\* after "0x".
Plain(secret) ==
    {B64Encode(secret), HexEncode(secret), <<"0", "x">> \o HexEncode(secret)}

\* Those texts for every signing key and every password.
PlainTexts == UNION {Plain(secret) : secret \in Keys \cup CmdPasswords}

\* Everything the program writes: the entries of the registry file and the
\* entry in the backup file.
Persisted ==
    {file.data.wallets[a] : a \in DOMAIN file.data.wallets}
        \cup {last.backup[i] : i \in 1..Len(last.backup)}

\* C16: after any sequence of create, import, switch, rename, delete,
\* backup, show-key and transfer commands, an entry of the registry file or of
\* a backup file has the eight fields of Wallet and none of them holds a
\* signing key or a password in the clear: the three text fields are not the
\* text of a key or of a password, and the bytes they stand for neither are a
\* password nor contain a key.
C16_NoPlaintextOnDisk ==
    \A w \in Persisted :
        /\ DOMAIN w = {"address", "balance", "network", "name",
                       "encrypted_private_key", "salt", "iv", "created_at"}
        /\ w.network = ""
        /\ w.created_at = "now"
        /\ w.name \in Names
        /\ \A text \in {w.encrypted_private_key, w.salt, w.iv} :
              LET bytes == Bytes(text)
              IN  /\ text \notin PlainTexts
                  /\ bytes \notin CmdPasswords
                  /\ \A k \in Keys : ~Contains(bytes, k)
        /\ \A k \in Keys : ~Contains(w.address, k)

C16_Witness ==
    /\ IsCommand("backup_wallet")
    /\ last.res = "Ok"
    /\ Len(last.backup) = 1
    /\ last.backup[1].name = last.args.name
    /\ decrypt_private_key(last.backup[1], <<97>>).res = "Ok"
    /\ Cardinality(DOMAIN file.data.wallets) > 1

---------------------------------------------------------------------------
(* Every operation that loads the registry file, and a file that no longer
   parses *)

\* A registry file whose text is not a serialized WalletData.
Garbled == [exists |-> TRUE, parses |-> FALSE, data |-> WalletData_new]

Outsider(op) == [NoOp EXCEPT !.op = op, !.level = "outside"]

\* The file is cut short or edited by hand.
Garble ==
    /\ file.exists
    /\ file.parses
    /\ file' = Garbled
    /\ last' = Outsider("garble")
    /\ UNCHANGED <<entry, out, wd, fs, mem, prog, race, call, poll>>

\* The user deletes the file.
RemoveRegistryFile ==
    /\ file.exists
    /\ file' = Absent
    /\ last' = Outsider("remove_file")
    /\ UNCHANGED <<entry, out, wd, fs, mem, prog, race, call, poll>>

\* WalletCommand::list_wallets
ListWallets ==
    IF ~file.exists THEN Abort("list_wallets", NoArgs, "Ok")
    ELSE IF ~file.parses THEN Abort("list_wallets", NoArgs, "ParseError")
    ELSE Output("list_wallets", NoArgs, "Ok", "none", << >>, << >>)

\* interactive::start up to its menu: the count of wallets shown on the
\* status line is 0 when the file is missing, cannot be read or does not
\* parse.
Start ==
    LET wallet_count ==
            IF file.exists /\ file.parses
            THEN Cardinality(DOMAIN Loaded.wallets)
            ELSE 0
    IN  Output("start", NoArgs, "Ok",
               IF wallet_count = 0 THEN "No wallets loaded" ELSE "wallets loaded",
               << >>, << >>)

\* What the configuration loader, the HTTP client builder and the remote
\* validator answer: ConfigManager::load or Client::build fails, or
\* validate_api_key returns one of the three ValidationResult variants.
Validations == {"ConfigError", "ClientError", "Valid", "Invalid", "NetworkError"}

ApiKeys == {"", "key", "other"}

\* Keys of 32 or more characters, all alphanumeric, '-' or '_'.
AlchemyKeys == {"0123456789abcdef0123456789abcdef"}

\* validate_api_key_format
validate_api_key_format(provider, key) ==
    CASE provider = "RskRpc" -> IF key = "" THEN "Err" ELSE "Ok"
      [] provider = "Alchemy" -> IF key \in AlchemyKeys THEN "Ok" ELSE "Err"
      [] provider = "Custom" -> "Ok"

\* set_api_key that, while saving, writes every entry back under a salt
\* drawn anew.
SetApiKeyResalted(api_key, validation) ==
    LET args == [NoArgs EXCEPT !.name = api_key]
        provider == "RskRpc"
    IN  IF validation = "ConfigError"
        THEN Abort("set_api_key", args, "ConfigError")
        ELSE IF validate_api_key_format(provider, api_key) = "Err"
        THEN Finish("set_api_key", args, "Ok", "FormatError", file)
        ELSE IF validation = "ClientError"
        THEN Abort("set_api_key", args, "ClientError")
        ELSE IF validation = "Invalid"
        THEN Finish("set_api_key", args, "Ok", "Invalid", file)
        ELSE IF file.exists /\ ~file.parses
        THEN Abort("set_api_key", args, "ParseError")
        ELSE LET wallet_data == IF file.exists THEN Loaded ELSE WalletData_new
             IN  Finish("set_api_key", args, "Ok", validation,
                        Written([wallet_data EXCEPT
                           !.api_key = <<api_key>>,
                           !.wallets = [a \in DOMAIN wallet_data.wallets |->
                              [wallet_data.wallets[a] EXCEPT
                                 !.salt = B64Encode(RandSalt(2))]]]))

\* set_api_key that saves the key in the Invalid arm as well.
SetApiKeySavesInvalid(api_key, validation) ==
    LET args == [NoArgs EXCEPT !.name = api_key]
        provider == "RskRpc"
    IN  IF validation = "ConfigError"
        THEN Abort("set_api_key", args, "ConfigError")
        ELSE IF validate_api_key_format(provider, api_key) = "Err"
        THEN Finish("set_api_key", args, "Ok", "FormatError", file)
        ELSE IF validation = "ClientError"
        THEN Abort("set_api_key", args, "ClientError")
        ELSE IF file.exists /\ ~file.parses
        THEN Abort("set_api_key", args, "ParseError")
        ELSE LET wallet_data == IF file.exists THEN Loaded ELSE WalletData_new
             IN  Finish("set_api_key", args, "Ok", validation,
                        Written([wallet_data EXCEPT !.api_key = <<api_key>>]))

\* SetApiKeyCommand::execute; validation is what the environment answers.
\* The provider is fixed to RskRpc; inner records the arm taken:
\* FormatError and Invalid return without saving, Valid and NetworkError
\* load the registry, set api_key and write it.
SetApiKey(api_key, validation) ==
    LET args == [NoArgs EXCEPT !.name = api_key]
        provider == "RskRpc"
    IN  IF validation = "ConfigError"
        THEN Abort("set_api_key", args, "ConfigError")
        ELSE IF validate_api_key_format(provider, api_key) = "Err"
        THEN Finish("set_api_key", args, "Ok", "FormatError", file)
        ELSE IF validation = "ClientError"
        THEN Abort("set_api_key", args, "ClientError")
        ELSE IF validation = "Invalid"
        THEN Finish("set_api_key", args, "Ok", "Invalid", file)
        ELSE IF file.exists /\ ~file.parses
        THEN Abort("set_api_key", args, "ParseError")
        ELSE LET wallet_data == IF file.exists THEN Loaded ELSE WalletData_new
             IN  Finish("set_api_key", args, "Ok", validation,
                        Written([wallet_data EXCEPT !.api_key = <<api_key>>]))

NextLoad ==
    \/ \E n \in Names, k \in Keys : CreateWallet(n, <<97>>, k, 1)
    \/ \E pk \in {<<k>> : k \in Keys} \cup {<< >>}, n \in Names :
          ImportWallet(pk, n, <<97>>, 1)
    \/ \E n \in Names : SwitchCommand(n)
    \/ \E n \in Names, m \in Names \cup {""} : RenameCommand(n, m)
    \/ \E n \in Names : DeleteCommand(n)
    \/ \E n \in Names : BackupCommand(n)
    \/ ShowPrivateKey(<<97>>)
    \/ \E sent \in BOOLEAN : TransferCommand(<<97>>, sent)
    \/ ListWallets
    \/ Start
    \/ \E key \in ApiKeys, v \in Validations : SetApiKey(key, v)
    \/ Garble
    \/ RemoveRegistryFile

SpecLoad == Init /\ [][NextLoad]_vars

\* The last operation got as far as reading the registry file: import_wallet
\* parses the key first, set_api_key saves only a key that was not refused.
LoadedFile ==
    /\ last.res \notin {"InvalidKey", "ConfigError", "ClientError"}
    /\ last.inner \notin {"FormatError", "Invalid"}

\* C18: an operation that finds a registry file which does not parse ends
\* with the parse error and leaves the file as it found it; none goes on as
\* if there were no data and none writes a fresh registry over it.
C18_ParseFailureSurfaced ==
    (/\ last.level = "command"
     /\ LoadedFile
     /\ last.pre.exists
     /\ ~last.pre.parses) =>
        /\ last.res = "ParseError"
        /\ last.post = last.pre
        /\ file = last.pre

---------------------------------------------------------------------------
(* Load, change, write *)

MutatingCommands ==
    {"create_wallet", "import_wallet", "switch_wallet", "rename_wallet",
     "delete_wallet"}

\* The signing key whose account is the address text.
KeyAt(address) == CHOOSE k \in Keys : FormatAddress(AddressOf(k)) = address

\* The registry the last command started from: the one in the file, or for
\* create and import a new one when there was no file.
Started == IF last.pre.exists THEN Pre ELSE WalletData_new

\* The registry the last command, having succeeded, must have written.
Mutated ==
    CASE last.op \in {"create_wallet", "import_wallet"} ->
            add_wallet(Started,
                       NewWallets[KeyAt(last.args.address), last.args.name,
                                  last.args.password, 1]).data
      [] last.op = "switch_wallet" ->
            switch_wallet(Started, last.args.address).data
      [] last.op = "rename_wallet" ->
            [Started EXCEPT !.wallets[last.args.address].name =
                               last.args.new_name]
      [] last.op = "delete_wallet" ->
            remove_wallet(Started, last.args.address).data

\* C19: a create, import, switch, rename or delete command that returns Ok
\* leaves in the file exactly the registry it loaded from the file with its
\* one change made, every other entry and field kept; one that returns an
\* error leaves the file as it was.
C19_LoadMutateWrite ==
    (last.level = "command" /\ last.op \in MutatingCommands) =>
        /\ file = last.post
        /\ IF last.res = "Ok"
           THEN /\ file.exists
                /\ file.parses
                /\ last.op \notin {"create_wallet", "import_wallet"} =>
                      last.pre.exists
                /\ file.data = Mutated
                /\ SameRest(file.data, Started)
                /\ SameOthers(file.data, Started, last.args.address)
           ELSE file = last.pre

C19_Witness ==
    /\ IsCommand("create_wallet")
    /\ last.res = "Ok"
    /\ last.pre.exists
    /\ DOMAIN Pre.wallets # {}
    /\ DOMAIN file.data.wallets = DOMAIN Pre.wallets \cup {last.args.address}
    /\ last.args.address \notin DOMAIN Pre.wallets

---------------------------------------------------------------------------
(* Secret<T> and SerializableSecret<T>: Zeroizing<T> behind expose() *)

\* The payloads: a password text and a byte vector, as their bytes.
SecretValues == {<<112, 119>>, <<1, 2, 3>>, <<7>>}

SecretTypes == {"Secret", "SerializableSecret"}

\* A heap buffer: the bytes of its whole capacity and the length in use.
Buffer(v) == [bytes |-> v, len |-> Len(v)]

\* What a reference to the payload reads.
Contents(b) == SubSeq(b.bytes, 1, b.len)

\* Dropping a T that is not wrapped: the buffer is freed as it is.
drop_plain(b) == b

\* Drop of Zeroizing<T>: T::zeroize() overwrites the whole buffer with zeros
\* and clears it, then the buffer is freed.
drop_zeroizing(b) == [bytes |-> [i \in 1..Len(b.bytes) |-> 0], len |-> 0]

\* Secret::new / SerializableSecret::new: the value moves into a Zeroizing;
\* its heap buffer is the wrapper's from then on.
SecretNew(type, v) ==
    /\ mem.scope = "open"
    /\ Len(mem.wrappers) < MaxSecrets
    /\ mem' = [mem EXCEPT
                 !.heap = Append(@, Buffer(v)),
                 !.wrappers = Append(@, [type |-> type, given |-> v,
                                         buf |-> Len(mem.heap) + 1,
                                         live |-> TRUE])]
    /\ UNCHANGED <<entry, out, wd, file, last, fs, prog, race, call, poll>>

\* #[derive(Clone)]: the clone is a wrapper with a buffer of its own.
SecretClone(i) ==
    /\ mem.scope = "open"
    /\ Len(mem.wrappers) < MaxSecrets
    /\ mem.wrappers[i].live
    /\ mem' = [mem EXCEPT
                 !.heap = Append(@, Buffer(Contents(mem.heap[mem.wrappers[i].buf]))),
                 !.wrappers = Append(@, [mem.wrappers[i] EXCEPT
                                            !.buf = Len(mem.heap) + 1])]
    /\ UNCHANGED <<entry, out, wd, file, last, fs, prog, race, call, poll>>

\* expose(): a shared reference to the payload is read.
Expose(i) ==
    /\ mem.scope = "open"
    /\ mem.wrappers[i].live
    /\ mem' = [mem EXCEPT !.read =
                 << [wrapper |-> i,
                     value |-> Contents(mem.heap[mem.wrappers[i].buf])] >>]
    /\ UNCHANGED <<entry, out, wd, file, last, fs, prog, race, call, poll>>

\* The wrappers of ws that are live are dropped.
Dropped(ws) ==
    [mem EXCEPT
        !.wrappers = [i \in 1..Len(mem.wrappers) |->
            IF i \in ws THEN [mem.wrappers[i] EXCEPT !.live = FALSE]
            ELSE mem.wrappers[i]],
        !.heap = [b \in 1..Len(mem.heap) |->
            IF \E i \in ws : mem.wrappers[i].live /\ mem.wrappers[i].buf = b
            THEN drop_zeroizing(mem.heap[b])
            ELSE mem.heap[b]]]

\* drop(secret)
DropSecret(i) ==
    /\ mem.scope = "open"
    /\ mem.wrappers[i].live
    /\ mem' = Dropped({i})
    /\ UNCHANGED <<entry, out, wd, file, last, fs, prog, race, call, poll>>

\* The scope ends, by its last statement ("returned") or by a `?` or an
\* early return ("failed"): every wrapper still live goes out of scope.
EndScope(how) ==
    /\ mem.scope = "open"
    /\ mem' = [Dropped(1..Len(mem.wrappers)) EXCEPT !.scope = how]
    /\ UNCHANGED <<entry, out, wd, file, last, fs, prog, race, call, poll>>

\* The next scope starts with nothing in it.
NewScope ==
    /\ mem.scope # "open"
    /\ mem' = MemFresh
    /\ UNCHANGED <<entry, out, wd, file, last, fs, prog, race, call, poll>>

NextSecret ==
    \/ \E t \in SecretTypes, v \in SecretValues : SecretNew(t, v)
    \/ \E i \in 1..Len(mem.wrappers) : SecretClone(i)
    \/ \E i \in 1..Len(mem.wrappers) : Expose(i)
    \/ \E i \in 1..Len(mem.wrappers) : DropSecret(i)
    \/ \E how \in {"returned", "failed"} : EndScope(how)
    \/ NewScope

SpecSecret == Init /\ [][NextSecret]_vars

\* C20: while a wrapper is live its payload is the value given to new(),
\* whatever has been read before, and what expose() read is that value;
\* once it is dropped, by drop(), at the end of the scope or on an early
\* return, every byte of its buffer is zero and the payload is gone; no
\* wrapper outlives its scope.
C20_SecretLifetime ==
    /\ \A i \in 1..Len(mem.wrappers) :
          LET w == mem.wrappers[i]
              b == mem.heap[w.buf]
          IN  IF w.live
              THEN Contents(b) = w.given
              ELSE /\ Len(b.bytes) = Len(w.given)
                   /\ \A j \in 1..Len(b.bytes) : b.bytes[j] = 0
                   /\ b.bytes # w.given
                   /\ Contents(b) = << >>
    /\ \A i \in 1..Len(mem.read) :
          mem.read[i].value = mem.wrappers[mem.read[i].wrapper].given
    /\ mem.scope # "open" =>
          \A i \in 1..Len(mem.wrappers) : ~mem.wrappers[i].live

C20_Witness ==
    /\ mem.scope = "failed"
    /\ Len(mem.wrappers) = MaxSecrets
    /\ mem.read # << >>
    /\ \E i, j \in 1..Len(mem.wrappers) :
          /\ mem.wrappers[i].type = "Secret"
          /\ mem.wrappers[j].type = "SerializableSecret"
          /\ mem.heap[mem.wrappers[i].buf].bytes # mem.wrappers[i].given

---------------------------------------------------------------------------
(* Secret and SerializableSecret under serde: what builds, what it yields *)

\* Secret with the two serde impls SerializableSecret has.
Impls_with_serde(type) ==
    {"Clone", "Debug", "Display", "From", "Serialize", "Deserialize"}

\* The traits each wrapper implements (derive and impl blocks of secrets.rs).
Impls(type) ==
    IF type = "Secret"
    THEN {"Clone", "Debug", "Display", "From"}
    ELSE {"Clone", "Debug", "Display", "From", "Serialize", "Deserialize"}

\* The characters of the secret texts: a letter and the three that JSON
\* escapes differently (quote, backslash, line feed).
TextChars == {"a", "\"", "\\", "\n"}

RECURSIVE TextsUpTo(_)
TextsUpTo(n) ==
    IF n = 0 THEN {<< >>}
    ELSE LET shorter == TextsUpTo(n - 1)
         IN  shorter \cup {Append(t, c) : t \in shorter, c \in TextChars}

SecretTexts == TextsUpTo(MaxTextLen)

\* serde_json's writing of one character inside a string.
EscapeChar(c) ==
    CASE c = "\"" -> <<"\\", "\"">>
      [] c = "\\" -> <<"\\", "\\">>
      [] c = "\n" -> <<"\\", "n">>
      [] OTHER -> <<c>>

RECURSIVE EscapeFrom(_, _)
EscapeFrom(v, i) ==
    IF i > Len(v) THEN << >> ELSE EscapeChar(v[i]) \o EscapeFrom(v, i + 1)

\* serde_json::to_string of a String: the escaped text between quotes.
to_string(v) == <<"\"">> \o EscapeFrom(v, 1) \o <<"\"">>

\* The characters of t from position i up to the closing quote at Len(t),
\* unescaped; ok is FALSE for a bare quote, a bare line feed, an unknown
\* escape or a backslash with nothing after it.
RECURSIVE UnescapeFrom(_, _)
UnescapeFrom(t, i) ==
    IF i >= Len(t) THEN [ok |-> TRUE, value |-> << >>]
    ELSE IF t[i] = "\\"
         THEN IF i + 1 >= Len(t) \/ t[i + 1] \notin {"\"", "\\", "n"}
              THEN [ok |-> FALSE, value |-> << >>]
              ELSE LET rest == UnescapeFrom(t, i + 2)
                       c == IF t[i + 1] = "n" THEN "\n" ELSE t[i + 1]
                   IN  [ok |-> rest.ok,
                        value |-> IF rest.ok THEN <<c>> \o rest.value
                                  ELSE << >>]
         ELSE IF t[i] \in {"\"", "\n"}
              THEN [ok |-> FALSE, value |-> << >>]
              ELSE LET rest == UnescapeFrom(t, i + 1)
                   IN  [ok |-> rest.ok,
                        value |-> IF rest.ok THEN <<t[i]>> \o rest.value
                                  ELSE << >>]

\* serde_json::from_str::<String>
from_str(t) ==
    IF Len(t) < 2 \/ t[1] # "\"" \/ t[Len(t)] # "\""
    THEN [ok |-> FALSE, value |-> << >>]
    ELSE UnescapeFrom(t, 2)

\* A Serialize impl that writes the wrapper's name, as its Display does,
\* in place of the payload.
serialize_display(w) == to_string(<<"S", "e", "c", "r", "e", "t">>)

\* impl Serialize for SerializableSecret: self.expose().serialize(serializer)
serialize(w) == to_string(w.value)

\* impl Deserialize for SerializableSecret: T::deserialize, then new(value).
deserialize(type, t) ==
    LET parsed == from_str(t)
    IN  IF parsed.ok
        THEN [kind |-> "wrapper", type |-> type, value |-> parsed.value,
              from |-> 0]
        ELSE [kind |-> "error", type |-> type, value |-> << >>, from |-> 0]

\* The statements: let s = Type::new(v); serde_json::to_string(&s);
\* serde_json::from_str::<Type<String>>(&t); s.expose().
Stmt(op, type, arg, v) == [op |-> op, type |-> type, arg |-> arg, v |-> v]

\* What statement k of the text binds, as the compiler sees it.
TypeAt(text, k) ==
    CASE text[k].op \in {"new", "from_str"} -> text[k].type
      [] text[k].op = "to_string" -> "String"
      [] OTHER -> "&String"

IsWrapper(text, k) == TypeAt(text, k) \in SecretTypes

\* Statement k asks serde for an impl of the trait named.
Needs(text, k) ==
    CASE text[k].op = "to_string" ->
            {<<TypeAt(text, text[k].arg), "Serialize">>}
      [] text[k].op = "from_str" -> {<<text[k].type, "Deserialize">>}
      [] OTHER -> {}

\* Trait resolution for statement k (error E0277 when it fails).
Resolves(text, k) == \A need \in Needs(text, k) : need[2] \in Impls(need[1])

\* The statements that can follow a text: they name only what is bound.
NextStmts(text) ==
    IF text = << >>
    THEN {Stmt("new", type, 0, v) : type \in SecretTypes, v \in SecretTexts}
    ELSE LET wrappers == {k \in 1..Len(text) : IsWrapper(text, k)}
             texts == {k \in 1..Len(text) : text[k].op = "to_string"}
         IN  {Stmt("to_string", "", k, << >>) : k \in wrappers}
               \cup {Stmt("expose", "", k, << >>) : k \in wrappers}
               \cup {Stmt("from_str", type, k, << >>) :
                        type \in SecretTypes, k \in texts}

\* One more statement is written.
Write(stmt) ==
    /\ prog.phase = "editing"
    /\ Len(prog.text) <= MaxStmts
    /\ stmt \in NextStmts(prog.text)
    /\ prog' = [prog EXCEPT !.text = Append(@, stmt)]
    /\ UNCHANGED <<entry, out, wd, file, last, fs, mem, race, call, poll>>

\* cargo build: every statement must resolve, or there is no binary.
CargoBuild ==
    /\ prog.phase = "editing"
    /\ prog.text # << >>
    /\ prog' = [prog EXCEPT !.phase =
                  IF \A k \in 1..Len(prog.text) : Resolves(prog.text, k)
                  THEN "built" ELSE "rejected"]
    /\ UNCHANGED <<entry, out, wd, file, last, fs, mem, race, call, poll>>

\* What the next statement evaluates to, given the slots bound so far.
Eval(stmt, slots) ==
    CASE stmt.op = "new" ->
            [kind |-> "wrapper", type |-> stmt.type, value |-> stmt.v,
             from |-> 0]
      [] stmt.op = "to_string" ->
            [kind |-> "text", type |-> "String",
             value |-> serialize(slots[stmt.arg]), from |-> stmt.arg]
      [] stmt.op = "from_str" ->
            [deserialize(stmt.type, slots[stmt.arg].value)
                EXCEPT !.from = stmt.arg]
      [] OTHER ->
            [kind |-> "ref", type |-> "&String",
             value |-> slots[stmt.arg].value, from |-> stmt.arg]

\* The binary runs its next statement.
Step ==
    /\ prog.phase \in {"built", "running"}
    /\ LET k == Len(prog.slots) + 1
       IN  prog' = [prog EXCEPT
                      !.slots = Append(@, Eval(prog.text[k], prog.slots)),
                      !.phase = IF k = Len(prog.text) THEN "done"
                                ELSE "running"]
    /\ UNCHANGED <<entry, out, wd, file, last, fs, mem, race, call, poll>>

NextBuild ==
    \/ \E stmt \in NextStmts(prog.text) : Write(stmt)
    \/ CargoBuild
    \/ Step

SpecBuild == Init /\ [][NextBuild]_vars

\* Statement k of the text serializes or deserializes a Secret.
SerializesSecret(text, k) ==
    \E need \in Needs(text, k) : need[1] = "Secret"

\* C21: Secret has no serialization path: a function that hands a Secret to
\* serde_json::to_string, or asks serde_json::from_str for one, is rejected
\* by the build and never runs, and in every function that runs no text
\* produced by serialization comes from a Secret and no Secret comes from
\* deserialization.
C21_SecretNotSerializable ==
    /\ (prog.phase # "editing"
          /\ \E k \in 1..Len(prog.text) : SerializesSecret(prog.text, k))
        => (prog.phase = "rejected" /\ prog.slots = << >>)
    /\ \A k \in 1..Len(prog.slots) :
          /\ prog.slots[k].kind = "text"
                => prog.slots[prog.slots[k].from].type # "Secret"
          /\ (prog.slots[k].kind = "wrapper" /\ prog.slots[k].from # 0)
                => prog.slots[k].type # "Secret"

C21_Witness ==
    /\ prog.phase = "rejected"
    /\ prog.text[1].type = "Secret"
    /\ prog.text[1].v # << >>
    /\ \E k \in 1..Len(prog.text) :
          prog.text[k].op = "to_string" /\ prog.text[k].arg = 1
    /\ \A k \in 1..Len(prog.text) : prog.text[k].op # "from_str"

\* C22: for every value v, the text serde_json::to_string gives for
\* SerializableSecret::new(v) is the text it gives for v itself, and
\* serde_json::from_str of that text is a SerializableSecret whose expose()
\* is v.
C22_RoundTrip ==
    \A k \in 1..Len(prog.slots) :
       LET slot == prog.slots[k]
       IN  /\ slot.kind = "text"
                => slot.value = to_string(prog.slots[slot.from].value)
           /\ slot.from # 0 /\ slot.kind \in {"wrapper", "error"}
                => /\ slot.kind = "wrapper"
                   /\ slot.type = "SerializableSecret"
                   /\ slot.value =
                        prog.slots[prog.slots[slot.from].from].value

C22_Witness ==
    /\ prog.phase = "done"
    /\ \E k \in 1..Len(prog.slots) :
          /\ prog.slots[k].kind = "wrapper"
          /\ prog.slots[k].from # 0
          /\ Len(prog.slots[k].value) = MaxTextLen
          /\ prog.slots[k].value[1] \in {"\"", "\\", "\n"}
          /\ \E j \in 1..Len(prog.slots) :
                prog.slots[j].kind = "ref" /\ prog.slots[j].from = k

---------------------------------------------------------------------------
(* Two processes on one registry file *)

\* Length of a wallet name in the file.
NameLen(name) == IF name = "main" THEN 4 ELSE IF name = "alt" THEN 3 ELSE 0

RECURSIVE EntriesLen(_, _)
EntriesLen(d, addresses) ==
    IF addresses = {} THEN 0
    ELSE LET a == CHOOSE x \in addresses : TRUE
         IN  300 + NameLen(d.wallets[a].name)
               + EntriesLen(d, addresses \ {a})

\* Length of serde_json::to_string_pretty(&wallet_data): what varies with
\* the registry is the selection (empty or an address text), the number of
\* entries and the length of their names; the other fields of an entry have
\* a fixed width, taken as 300 characters.
TextLen(d) ==
    100 + Len(d.current_wallet) + EntriesLen(d, DOMAIN d.wallets)

\* The password the racing imports use.
RacePassword == <<97>>

AllIdle == \A p \in Procs : race.procs[p].pc = "idle"

\* The registry file the processes find: an import run to its end before
\* either of them starts.
Seed(k, name) ==
    /\ AllIdle
    /\ file' = Written(add_wallet(IF file.exists THEN Loaded
                                  ELSE WalletData_new,
                                  NewWallets[k, name, RacePassword, 1]).data)
    /\ UNCHANGED <<entry, out, wd, last, fs, mem, prog, race, call, poll>>

\* Process p may start: the processes are numbered in the order they start.
MayStart(p) ==
    /\ race.procs[p].pc = "idle"
    /\ \A q \in Procs : q < p => race.procs[q].pc # "idle"

\* import_wallet up to its read of the file: the key is parsed and the
\* entry built.
StartImport(p, k, name) ==
    /\ MayStart(p)
    /\ race' = [race EXCEPT !.procs[p] =
                  [Idle EXCEPT
                     !.pc = "started", !.op = "import_wallet",
                     !.args = [NoArgs EXCEPT
                                 !.name = name,
                                 !.password = RacePassword,
                                 !.address = FormatAddress(AddressOf(k)),
                                 !.wallet = <<NewWallets[k, name,
                                                         RacePassword, 1]>>]]]
    /\ UNCHANGED <<entry, out, wd, file, last, fs, mem, prog, call, poll>>

\* rename_wallet up to its read of the file.
StartRename(p, old_name, new_name) ==
    /\ MayStart(p)
    /\ race' = [race EXCEPT !.procs[p] =
                  [Idle EXCEPT
                     !.pc = "started", !.op = "rename_wallet",
                     !.args = [NoArgs EXCEPT !.name = old_name,
                                             !.new_name = new_name]]]
    /\ UNCHANGED <<entry, out, wd, file, last, fs, mem, prog, call, poll>>

\* What the process does with the registry it loaded: the error it returns
\* with, or the registry it is about to write.
Mutation(op, args, d) ==
    IF op = "import_wallet"
    THEN [res |-> "Ok", data |-> add_wallet(d, args.wallet[1]).data]
    ELSE IF get_wallet_by_name(d, args.name) = {}
    THEN [res |-> "NotFound", data |-> d]
    ELSE IF args.new_name = ""
    THEN [res |-> "EmptyName", data |-> d]
    ELSE IF get_wallet_by_name(d, args.new_name) # {}
    THEN [res |-> "NameTaken", data |-> d]
    ELSE LET wallet == CHOOSE w \in get_wallet_by_name(d, args.name) : TRUE
         IN  rename_wallet(d, wallet, args.new_name)

End(me, res) == [me EXCEPT !.pc = "done", !.res = res]

\* fs::read_to_string and serde_json::from_str, then the in-memory part of
\* the command.
ReadFile(p) ==
    LET me == race.procs[p]
        d == IF file.exists THEN file.data ELSE WalletData_new
        m == Mutation(me.op, me.args, d)
    IN  /\ me.pc = "started"
        /\ race' = [race EXCEPT !.procs[p] =
              IF ~file.exists /\ me.op = "rename_wallet"
              THEN End(me, "NoWalletsFound")
              ELSE IF file.exists /\ ~file.parses
              THEN End(me, "ParseError")
              ELSE IF m.res # "Ok" THEN End(me, m.res)
              ELSE [me EXCEPT !.pc = "loaded", !.loaded = d,
                              !.written = m.data]]
        /\ UNCHANGED <<entry, out, wd, file, last, fs, mem, prog, call, poll>>

\* fs::write, first half: File::create opens the file and truncates it.
OpenTruncate(p) ==
    /\ race.procs[p].pc = "loaded"
    /\ file' = Garbled
    /\ race' = [race EXCEPT !.procs[p].pc = "writing", !.tail = 0]
    /\ UNCHANGED <<entry, out, wd, last, fs, mem, prog, call, poll>>

\* A write in append mode: the text lands after the characters held.
Appended(d, held) == IF held = 0 THEN OnDisk(d) ELSE Garbled

\* The file after text of the registry d is written from offset 0 over
\* held characters: d when the text covers them, otherwise the text with the
\* rest of the old characters after it, which does not parse.
Overwritten(d, held) == IF TextLen(d) >= held THEN OnDisk(d) ELSE Garbled


\* fs::write, second half: write_all from the start of the file; the
\* command then returns Ok.
WriteContents(p) ==
    LET me == race.procs[p]
    IN  /\ me.pc = "writing"
        /\ file' = Overwritten(me.written, race.tail)
        /\ race' = [race EXCEPT
                      !.procs[p] = End(me, "Ok"),
                      !.writes = Append(@, p),
                      !.tail = IF TextLen(me.written) >= @
                               THEN TextLen(me.written) ELSE @]
        /\ UNCHANGED <<entry, out, wd, last, fs, mem, prog, call, poll>>

\* The process is killed (or the machine loses power) before it returns.
Crash(p) ==
    /\ race.procs[p].pc \in {"started", "loaded", "writing"}
    /\ race' = [race EXCEPT !.procs[p].pc = "crashed",
                            !.procs[p].res = race.procs[p].pc]
    /\ UNCHANGED <<entry, out, wd, file, last, fs, mem, prog, call, poll>>

NextRace ==
    \/ \E k \in Keys, n \in Names : Seed(k, n)
    \/ \E p \in Procs, k \in Keys, n \in Names : StartImport(p, k, n)
    \/ \E p \in Procs, n \in Names, m \in Names \cup {""} :
          StartRename(p, n, m)
    \/ \E p \in Procs : ReadFile(p)
    \/ \E p \in Procs : OpenTruncate(p)
    \/ \E p \in Procs : WriteContents(p)
    \/ \E p \in Procs : Crash(p)

SpecRace == Init /\ [][NextRace]_vars

\* Both processes ran their command to the end and wrote the file.
BothWrote ==
    /\ \A p \in Procs : race.procs[p].pc = "done" /\ race.procs[p].res = "Ok"
    /\ Len(race.writes) = 2

\* The registry the process that wrote first, and last, handed to
\* write_secure.
FirstWritten == race.procs[race.writes[1]].written

LastWritten == race.procs[race.writes[2]].written

\* C23 as stated: when two processes run load-mutate-write on the same file
\* concurrently and both complete, the file is exactly the registry written
\* by the process that wrote last.
C23_LastWriterWins == BothWrote => file = OnDisk(LastWritten)

\* C23, amended: there is no exclusion between the processes; when both
\* complete, the file is either exactly the registry the last writer wrote,
\* computed from what that process had loaded, or, when its text is shorter
\* than the text the other process wrote, a text that does not parse; what
\* the other process added is in the file only if the last writer had loaded
\* it.
C23_LastWriterWinsOrGarbled ==
    BothWrote =>
        /\ \A p \in Procs :
              race.procs[p].written =
                 Mutation(race.procs[p].op, race.procs[p].args,
                          race.procs[p].loaded).data
        /\ \/ file = OnDisk(LastWritten)
           \/ file = Garbled /\ TextLen(LastWritten) < TextLen(FirstWritten)
        /\ file.parses =>
              \A a \in DOMAIN file.data.wallets :
                 \/ a \in DOMAIN race.procs[race.writes[2]].loaded.wallets
                 \/ a = race.procs[race.writes[2]].args.address

\* Both imports returned Ok and the entry the first one added is not in the
\* file.
C23_Witness ==
    /\ BothWrote
    /\ file = OnDisk(LastWritten)
    /\ race.procs[race.writes[1]].op = "import_wallet"
    /\ race.procs[race.writes[2]].op = "import_wallet"
    /\ race.procs[race.writes[1]].args.address
          \in DOMAIN FirstWritten.wallets
    /\ race.procs[race.writes[1]].args.address
          \notin DOMAIN file.data.wallets

---------------------------------------------------------------------------
(* What the keystore calls leave in their buffers *)

\* [0u8; n]
Zeros(n) == [i \in 1..n |-> 0]

\* Zeroize::zeroize on an array or on a Vec: every byte of the buffer is 0.
zeroize(b) == Zeros(Len(b))

AllZero(b) == \A i \in 1..Len(b) : b[i] = 0

\* The Results of scrypt and of cipher.encrypt: which of the two, if any,
\* is an Err.
CryptoFailures == {"none", "scrypt", "cipher"}

\* Wallet::encrypt_private_key, statement by statement, with the key buffer
\* as the return leaves it: `?` on scrypt and on cipher.encrypt returns
\* before key.zeroize().
encrypt_private_key_run(private_key, password, rs, rn, fail) ==
    LET salt == RandSalt(rs)
        nonce == RandNonce(rn)
        key0 == Zeros(KEY_LEN)
        key == Scrypt(password, salt)
    IN  IF fail = "scrypt"
        THEN [res |-> "KeyDerivationFailed", key |-> key0, value |-> << >>]
        ELSE IF fail = "cipher"
        THEN [res |-> "EncryptionFailed", key |-> key, value |-> << >>]
        ELSE [res |-> "Ok", key |-> zeroize(key),
              value |-> << AeadEncrypt(key, nonce, private_key), nonce, salt >>]

\* Wallet::new with private_key_bytes as the return leaves it: `?` on
\* encrypt_private_key returns before private_key_bytes.zeroize().
Wallet_new_run(k, name, password, rs, rn, fail) ==
    LET private_key_bytes == k
        enc == encrypt_private_key_run(private_key_bytes, password, rs, rn,
                                       fail)
    IN  IF enc.res # "Ok"
        THEN [NoCall EXCEPT !.fn = "Wallet::new", !.res = enc.res,
                            !.key = enc.key, !.raw = private_key_bytes]
        ELSE [NoCall EXCEPT !.fn = "Wallet::new", !.res = "Ok",
                            !.key = enc.key,
                            !.raw = zeroize(private_key_bytes),
                            !.value = <<Wallet_new(k, name, password, rs, rn)>>]

\* Wallet::decrypt_private_key with the key and plaintext buffers as the
\* return leaves them: key is filled at line 109, plaintext at line 116;
\* plaintext.zeroize() (123) and key.zeroize() (130) are reached only on the
\* way to Ok(result).
decrypt_private_key_run(w, password) ==
    LET salt == B64Decode(w.salt)
        nonce_or_iv == B64Decode(w.iv)
        encrypted_key == B64Decode(w.encrypted_private_key)
        at(res, key, plaintext, value) ==
            [NoCall EXCEPT !.fn = "decrypt_private_key", !.res = res,
                           !.key = key, !.plaintext = plaintext,
                           !.value = value]
    IN  IF ~salt.ok THEN at("Failed to decode salt", << >>, << >>, << >>)
        ELSE IF ~nonce_or_iv.ok
        THEN at("Failed to decode nonce/IV", << >>, << >>, << >>)
        ELSE IF ~encrypted_key.ok
        THEN at("Failed to decode encrypted private key", << >>, << >>, << >>)
        ELSE IF Len(salt.bytes) # SALT_LEN
        THEN at("Salt must be 16 bytes", << >>, << >>, << >>)
        ELSE LET key == Scrypt(password, salt.bytes)
             IN  IF Len(nonce_or_iv.bytes) = NONCE_LEN
                 THEN LET plain == AeadDecrypt(key, nonce_or_iv.bytes,
                                               encrypted_key.bytes)
                      IN  IF ~plain.ok
                          THEN at("Incorrect password", key, << >>, << >>)
                          ELSE IF Len(plain.pt) # KEY_LEN
                          THEN at("Decrypted private key has invalid length",
                                  key, plain.pt, << >>)
                          ELSE at("Ok", zeroize(key), zeroize(plain.pt),
                                  <<"0", "x">> \o HexEncode(plain.pt))
                 ELSE at("Unsupported encryption format", key, << >>, << >>)

\* The calls of Wallet::new and of encrypt_private_key, tabulated.
NewRuns ==
    [k \in Keys, p \in CmdPasswords, r \in Draws, fail \in CryptoFailures |->
        [Wallet_new_run(k, "main", p, r, r, fail) EXCEPT !.args = <<k, p, r>>]]

EncryptRuns ==
    [k \in Keys, p \in CmdPasswords, r \in Draws, fail \in CryptoFailures |->
        LET run == encrypt_private_key_run(k, p, r, r, fail)
        IN  [NoCall EXCEPT !.fn = "encrypt_private_key",
                           !.args = <<k, p, r>>,
                           !.res = run.res,
                           !.key = run.key,
                           !.value = run.value]]

NewCall(k, p, r, fail) ==
    /\ call' = NewRuns[k, p, r, fail]
    /\ entry' = NoEntry
    /\ UNCHANGED <<out, wd, file, last, fs, mem, prog, race, poll>>

EncryptCall(k, p, r, fail) ==
    /\ call' = EncryptRuns[k, p, r, fail]
    /\ entry' = NoEntry
    /\ UNCHANGED <<out, wd, file, last, fs, mem, prog, race, poll>>

\* serde_json::from_str: an entry of the registry file becomes a Wallet on
\* which nothing has been called yet.
LoadEntry(e) ==
    /\ ~entry.made
    /\ entry' = e
    /\ call' = NoCall
    /\ UNCHANGED <<out, wd, file, last, fs, mem, prog, race, poll>>

DecryptCall(p) ==
    /\ entry.made
    /\ call' = [decrypt_private_key_run(entry.wallet, p)
                   EXCEPT !.args = <<p>>]
    /\ UNCHANGED <<entry, out, wd, file, last, fs, mem, prog, race, poll>>

NextZero ==
    \/ \E k \in Keys, p \in CmdPasswords, r \in Draws,
          fail \in CryptoFailures : NewCall(k, p, r, fail)
    \/ \E k \in Keys, p \in CmdPasswords, r \in Draws,
          fail \in CryptoFailures : EncryptCall(k, p, r, fail)
    \/ \E e \in StoredInputs : LoadEntry(e)
    \/ \E p \in Passwords : DecryptCall(p)

SpecZero == Init /\ [][NextZero]_vars

\* The buffer-tracking functions return what the functions of the keystore
\* return.
ZeroAgrees ==
    /\ call.fn = "decrypt_private_key" =>
          /\ decrypt_private_key(entry.wallet, call.args[1]).res = call.res
          /\ decrypt_private_key(entry.wallet, call.args[1]).value
                = call.value
    /\ (call.fn = "encrypt_private_key" /\ call.res = "Ok") =>
          call.value = encrypt_private_key(call.args[1], call.args[2],
                                           call.args[3], call.args[3])
    /\ (call.fn = "Wallet::new" /\ call.res = "Ok") =>
          call.value = <<Wallet_new(call.args[1], "main", call.args[2],
                                    call.args[3], call.args[3])>>

\* C24: whenever Wallet::new or encrypt_private_key returns, with an entry
\* or with an error from key derivation or from the cipher, the derived key
\* buffer and the raw private-key buffer hold only zeros.
C24_EncryptZeroizesOnEveryPath ==
    call.fn \in {"Wallet::new", "encrypt_private_key"} =>
        AllZero(call.key) /\ AllZero(call.raw)

\* C25: whenever decrypt_private_key returns, with the key, with the
\* incorrect-password error, with the invalid-length error or with the
\* unsupported-format error, the derived key buffer and the decrypted
\* plaintext buffer hold only zeros.
C25_DecryptZeroizesOnEveryPath ==
    call.fn = "decrypt_private_key" =>
        AllZero(call.key) /\ AllZero(call.plaintext)

---------------------------------------------------------------------------
(* Entries are written once *)

\* The entries Wallet::new can build for the key at an address: their three
\* secret fields come from one call of encrypt_private_key.
BuiltFor(address) ==
    {StoredCrypto(w) : w \in {x \in WalletInputs : x.address = address}}

\* The address rename_wallet is aimed at: the command records the address it
\* found, the method is handed the entry.
RenameTarget ==
    IF last.level = "command" THEN last.args.address
    ELSE IF last.args.wallet = << >> THEN << >>
    ELSE FormatAddress(last.args.wallet[1].address)

\* C26: an operation of the program leaves address, encrypted_private_key,
\* salt and iv of every entry it finds in the registry and keeps there as
\* they were; other than rename_wallet, which changes the name of the one
\* entry it is aimed at, it leaves the whole entry as it was; a backup holds
\* the entry as stored; and the three secret fields of every entry in the
\* file are those of one single call of encrypt_private_key for the key of
\* its address.
C26_SecretMaterialWriteOnce ==
    /\ (last.level \in {"command", "registry"}
          /\ last.pre.parses /\ last.post.parses) =>
          \A a \in (DOMAIN Pre.wallets) \cap (DOMAIN Post.wallets) :
             /\ Post.wallets[a].address = Pre.wallets[a].address
             /\ StoredCrypto(Post.wallets[a]) = StoredCrypto(Pre.wallets[a])
             /\ IF last.op = "rename_wallet" /\ RenameTarget = a
                THEN Post.wallets[a] =
                        [Pre.wallets[a] EXCEPT !.name = Post.wallets[a].name]
                ELSE Post.wallets[a] = Pre.wallets[a]
    /\ \A i \in 1..Len(last.backup) :
          last.backup[i] = Pre.wallets[last.args.address]
    /\ file.parses =>
          \A a \in DOMAIN file.data.wallets :
             /\ a = FormatAddress(file.data.wallets[a].address)
             /\ StoredCrypto(file.data.wallets[a])
                   \in BuiltFor(file.data.wallets[a].address)

\* An API key has been stored, an entry has been renamed, and the file
\* holds a second entry.
C26_Witness ==
    /\ last.op = "rename_wallet"
    /\ last.level = "command"
    /\ last.res = "Ok"
    /\ file.data.api_key # << >>
    /\ Cardinality(DOMAIN Pre.wallets) >= 2
    /\ Post.wallets[last.args.address].name
          # Pre.wallets[last.args.address].name

---------------------------------------------------------------------------
(* A write cut short *)

\* The one process that ran is over, by return or by crash.
Settled == race.procs[1].pc \in {"done", "crashed"}

\* The operations run, one after the other, on the file the process left
\* behind when it does not parse.
LaterOperation ==
    /\ Settled
    /\ file.exists
    /\ ~file.parses
    /\ \/ \E n \in Names, k \in Keys : CreateWallet(n, RacePassword, k, 1)
       \/ \E k \in Keys, n \in Names :
             ImportWallet(<<k>>, n, RacePassword, 1)
       \/ \E n \in Names : SwitchCommand(n)
       \/ \E n \in Names, m \in Names : RenameCommand(n, m)
       \/ \E n \in Names : DeleteCommand(n)
       \/ \E n \in Names : BackupCommand(n)
       \/ ShowPrivateKey(RacePassword)
       \/ TransferCommand(RacePassword, TRUE)
       \/ ListWallets
       \/ Start
       \/ \E v \in {"Valid", "NetworkError"} : SetApiKey("key", v)

\* One process in load-mutate-write that may be killed at any point, and
\* the operations run afterwards.
NextCrash ==
    \/ \E k \in Keys, n \in Names : Seed(k, n)
    \/ \E k \in Keys, n \in Names : StartImport(1, k, n)
    \/ \E n \in Names, m \in Names \cup {""} : StartRename(1, n, m)
    \/ ReadFile(1)
    \/ OpenTruncate(1)
    \/ WriteContents(1)
    \/ Crash(1)
    \/ LaterOperation

SpecCrash == Init /\ [][NextCrash]_vars

\* A process was killed between File::create and the end of write_all, and
\* nothing has been written to the file since it was last truncated.
CutShort ==
    /\ \E p \in Procs :
          race.procs[p].pc = "crashed" /\ race.procs[p].res = "writing"
    /\ race.tail = 0
    /\ \A p \in Procs : race.procs[p].pc # "writing"

\* C27: write_secure overwrites the file in place: after a crash between
\* the start and the end of the write the file is truncated or partial and
\* does not parse, and from then on every operation that loads the registry
\* ends with the serialization error, leaves the file as it is and reads no
\* entry.
C27_CrashLosesAllEntries ==
    /\ CutShort => (file.exists /\ ~file.parses)
    /\ (last.level = "command" /\ LoadedFile
          /\ last.pre.exists /\ ~last.pre.parses) =>
          /\ last.res = "ParseError"
          /\ last.backup = << >>
          /\ last.shown = << >>
          /\ ~file.parses

\* What holds of a write cut short: the file does not parse, it stays that
\* way whatever runs afterwards, and every operation other than the start
\* of interactive mode ends with the serialization error having read no
\* entry.
CrashLosesAllEntriesButStart ==
    /\ CutShort => (file.exists /\ ~file.parses)
    /\ (last.level = "command" /\ LoadedFile /\ last.op # "start"
          /\ last.pre.exists /\ ~last.pre.parses) =>
          /\ last.res = "ParseError"
          /\ last.backup = << >>
          /\ last.shown = << >>
    /\ (last.level = "command" /\ last.pre.exists /\ ~last.pre.parses) =>
          ~file.parses

\* The file held two entries, a rename was killed inside its write, and a
\* later operation found the file unreadable.
CrashLosesAllEntriesSeen ==
    /\ CutShort
    /\ \E p \in Procs :
          /\ race.procs[p].res = "writing"
          /\ race.procs[p].op = "rename_wallet"
          /\ Cardinality(DOMAIN race.procs[p].loaded.wallets) >= 2
    /\ last.res = "ParseError"

---------------------------------------------------------------------------
(* Success of create and import *)

\* C28: when the create or the import command returns success, the entry it
\* built (the name given, the address of the key, decryptable with the
\* password given) is in the registry file and is the current one; when
\* add_wallet rejects the entry because its address is present, the command
\* returns an error.
C28_SuccessMeansStored ==
    (/\ last.level = "command"
     /\ last.op \in {"create_wallet", "import_wallet"}
     /\ last.res = "Ok") =>
        /\ last.inner = "Ok"
        /\ file.exists /\ file.parses
        /\ last.args.address \in DOMAIN file.data.wallets
        /\ file.data.current_wallet = last.args.address
        /\ LET w == file.data.wallets[last.args.address]
           IN  /\ w.name = last.args.name
               /\ Decrypted[StoredCrypto(w), last.args.password].res = "Ok"

\* The same for the import command alone, whose key is the user's to repeat.
ImportSuccessMeansStored ==
    last.op = "import_wallet" => C28_SuccessMeansStored

\* The same when add_wallet took the entry: only the discarded rejection
\* separates success from stored.
SuccessMeansStoredWhenAdded ==
    last.inner = "Ok" => C28_SuccessMeansStored

---------------------------------------------------------------------------
(* What set_api_key writes *)

\* C29: the set-API-key command changes the registry file only when the key
\* passes the format check and the remote validation answers Valid or
\* NetworkError; after a format error or an Invalid answer the file is as it
\* was. When it saves, the stored API key is the key given and the current
\* wallet, the entries and the contacts are those it loaded.
C29_SetApiKeyFrame ==
    IsCommand("set_api_key") =>
        /\ (last.post # last.pre =>
              /\ last.res = "Ok"
              /\ validate_api_key_format("RskRpc", last.args.name) = "Ok"
              /\ last.inner \in {"Valid", "NetworkError"})
        /\ (last.inner \in {"FormatError", "Invalid"} =>
              /\ last.post = last.pre
              /\ file = last.pre)
        /\ ((last.res = "Ok" /\ last.inner \in {"Valid", "NetworkError"}) =>
              /\ file = last.post
              /\ file.exists /\ file.parses
              /\ Post.api_key = <<last.args.name>>
              /\ Post.current_wallet = Started.current_wallet
              /\ Post.wallets = Started.wallets
              /\ Post.contacts = Started.contacts)

\* A key was saved over a registry that holds a wallet and another key.
C29_Witness ==
    /\ IsCommand("set_api_key")
    /\ last.res = "Ok"
    /\ last.inner = "NetworkError"
    /\ DOMAIN Pre.wallets # {}
    /\ Pre.current_wallet # << >>
    /\ Pre.api_key # << >>
    /\ Post.api_key # Pre.api_key

---------------------------------------------------------------------------
(* Receipt polling after a transfer *)

\* let mut retries = 5
RETRIES == 5

\* tokio::time::sleep(Duration::from_secs(2))
SLEEP_SECS == 2

TxHashes == {171, 205}

\* What eth_client.get_transaction_receipt answers: a receipt, or an error.
Receipts == [status : BOOLEAN, gas_used : {21000, 52000}]

ReceiptOutcomes ==
    [ok : {TRUE}, receipt : Receipts] \cup [ok : {FALSE}, receipt : {NoReceipt}]

\* The match of the loop that retries once more when no retry is left.
Arm_retry_at_zero(outcome, retries) ==
    IF outcome.ok THEN "break"
    ELSE IF retries >= 0 THEN "retry"
    ELSE "return"

\* The arms of the match in the loop: Ok(receipt) => break receipt,
\* Err(_) if retries > 0 => retry, Err(_) => return the minimal result.
Arm(outcome, retries) ==
    IF outcome.ok THEN "break"
    ELSE IF retries > 0 THEN "retry"
    ELSE "return"

\* eth_client.send_transaction returned the hash; the loop is entered.
SendTransaction(tx_hash) ==
    /\ poll.pc = "idle"
    /\ poll' = [PollFresh EXCEPT !.pc = "request", !.tx_hash = tx_hash,
                                 !.retries = RETRIES]
    /\ UNCHANGED <<entry, out, wd, file, last, fs, mem, prog, race, call>>

\* One turn of the loop: the request and the arm its answer selects.
GetReceipt(outcome) ==
    /\ poll.pc = "request"
    /\ LET arm == Arm(outcome, poll.retries)
           asked == [poll EXCEPT !.outcomes = Append(@, outcome.ok)]
       IN  poll' =
             CASE arm = "break" ->
                    [asked EXCEPT !.pc = "confirmed",
                                  !.receipt = outcome.receipt]
               [] arm = "retry" ->
                    [asked EXCEPT !.pc = "sleep", !.retries = @ - 1]
               [] arm = "return" ->
                    [asked EXCEPT !.pc = "returned",
                                  !.result = [returned |-> "Ok",
                                              tx_hash |-> poll.tx_hash,
                                              gas_used |-> 0,
                                              gas_price |-> 0,
                                              status |-> 0]]
    /\ UNCHANGED <<entry, out, wd, file, last, fs, mem, prog, race, call>>

\* The two seconds between a failed request and the next one.
Sleep ==
    /\ poll.pc = "sleep"
    /\ poll' = [poll EXCEPT !.pc = "request", !.slept = @ + SLEEP_SECS]
    /\ UNCHANGED <<entry, out, wd, file, last, fs, mem, prog, race, call>>

\* After the loop: the result built from the receipt.
Confirmed ==
    /\ poll.pc = "confirmed"
    /\ poll' = [poll EXCEPT
                  !.pc = "returned",
                  !.result = [returned |-> "Ok",
                              tx_hash |-> poll.tx_hash,
                              gas_used |-> poll.receipt.gas_used,
                              gas_price |-> 0,
                              status |-> IF poll.receipt.status THEN 1 ELSE 0]]
    /\ UNCHANGED <<entry, out, wd, file, last, fs, mem, prog, race, call>>

\* The command has returned; the next transfer is a new run of it.
Exit ==
    /\ poll.pc = "returned"
    /\ poll' = PollFresh
    /\ UNCHANGED <<entry, out, wd, file, last, fs, mem, prog, race, call>>

NextPoll ==
    \/ \E h \in TxHashes : SendTransaction(h)
    \/ \E o \in ReceiptOutcomes : GetReceipt(o)
    \/ Sleep
    \/ Confirmed
    \/ Exit

\* Every request and every sleep that is awaited completes, and the code
\* after the loop runs.
SpecPoll ==
    /\ Init
    /\ [][NextPoll]_vars
    /\ WF_vars(\E o \in ReceiptOutcomes : GetReceipt(o))
    /\ WF_vars(Sleep)
    /\ WF_vars(Confirmed)

AllFailed == \A i \in 1..Len(poll.outcomes) : ~poll.outcomes[i]

\* At most RETRIES + 1 requests are made; every request before the last
\* failed, so a request that succeeds is the last; the command returns after
\* six failures with the minimal result and after a success with the result
\* of the receipt.
PollingBounded ==
    /\ Len(poll.outcomes) <= RETRIES + 1
    /\ \A i \in 1..(Len(poll.outcomes) - 1) : ~poll.outcomes[i]
    /\ (poll.pc = "returned" /\ AllFailed) =>
          /\ Len(poll.outcomes) = RETRIES + 1
          /\ poll.result = [returned |-> "Ok", tx_hash |-> poll.tx_hash,
                            gas_used |-> 0, gas_price |-> 0, status |-> 0]
    /\ (poll.pc = "returned" /\ ~AllFailed) =>
          /\ poll.result.returned = "Ok"
          /\ poll.result.tx_hash = poll.tx_hash
          /\ poll.result.gas_used = poll.receipt.gas_used
    /\ poll.pc \in {"confirmed", "returned"} => Len(poll.outcomes) >= 1

\* C30: receipt polling after a transfer terminates: at most six requests are
\* made (one and five retries); when all fail the command returns Ok with the
\* transaction hash, status 0 and zero gas fields; the first request that
\* succeeds is the last one made; and every transfer sent reaches its return.
C30_PollingTerminates ==
    /\ []PollingBounded
    /\ (poll.pc # "idle") ~> (poll.pc = "returned")

\* Six requests failed and the command returned the minimal result.
C30_Witness ==
    /\ poll.pc = "returned"
    /\ Len(poll.outcomes) = RETRIES + 1
    /\ AllFailed
    /\ poll.result.status = 0
    /\ poll.result.tx_hash = poll.tx_hash
    /\ poll.tx_hash \in TxHashes

============================================================================
